---- MODULE Spec2Model ----
(***************************************************************************)
(* echt: request/response validation middleware for Express, built on Zod. *)
(* The model follows validate() of the library source (the last, complete  *)
(* version in src/examples/advanced-usage.ts, lines 474-694) together with *)
(* the parts of the host (Express 4) and of the schema library (Zod) that  *)
(* the middleware calls.                                                    *)
(***************************************************************************)
EXTENDS Integers, Sequences, FiniteSets, TLC

(***************************************************************************)
(* JavaScript values.                                                      *)
(*                                                                         *)
(* Every value is a record of one shape:                                   *)
(*   base  "obj": a plain object, "text": a string that is not JSON text   *)
(*   o     the object's properties: key -> kind of the property's value    *)
(*         "-" no such property, "s" a string, "n" a number,               *)
(*         "u" the property exists and holds undefined,                    *)
(*         "l" a non-empty list of strings, "e" an empty list,             *)
(*         "a" the array held in field e (the issues of an error body)     *)
(*   e     the issue list held by the property "errors"                    *)
(*   txt   the characters of a "text" string                               *)
(*   q     how many times the value was JSON-encoded: an object with q = 1 *)
(*         is the JSON text of the object (a string), with q = 2 the JSON  *)
(*         text of that string, and so on                                  *)
(***************************************************************************)
Keys == {"message", "error", "extra", "errors", "Message"}

Kinds == {"-", "s", "n", "u", "l", "e", "a"}

NoProps == [k \in Keys |-> "-"]

Obj(props) == [base |-> "obj", o |-> props, e |-> <<>>, txt |-> "", q |-> 0]

Text(chars) == [base |-> "text", o |-> NoProps, e |-> <<>>, txt |-> chars, q |-> 0]

\* typeof v === 'string'
IsString(v) == v.base = "text" \/ v.q > 0

\* The value `undefined` (a body that was never set).
Undefined == [base |-> "undefined", o |-> NoProps, e |-> <<>>, txt |-> "", q |-> 0]

\* JSON.stringify drops the properties that hold undefined.
StringifyProps(props) == [k \in Keys |-> IF props[k] = "u" THEN "-" ELSE props[k]]

\* JSON.stringify(v)
JSONstringify(v) ==
  IF v.base = "obj" /\ v.q = 0
    THEN [v EXCEPT !.o = StringifyProps(v.o), !.q = 1]
    ELSE [v EXCEPT !.q = v.q + 1]

\* JSON.parse(v) succeeds: v is a string holding JSON text.  A value that is
\* not a string is first converted to one ("[object Object]"), which is not
\* JSON text either.
JSONparses(v) == v.q > 0

\* JSON.parse(v), where it succeeds.
JSONparse(v) == [v EXCEPT !.q = v.q - 1]

(***************************************************************************)
(* Errors.  kind "ZodError" carries the issues in errors; the other kinds  *)
(* carry a message.                                                        *)
(***************************************************************************)
NoError == [kind |-> "none", message |-> "", errors |-> <<>>]

ZodError(issues) == [kind |-> "ZodError", message |-> "", errors |-> issues]

Error(msg) == [kind |-> "Error", message |-> msg, errors |-> <<>>]

SyntaxError == [kind |-> "SyntaxError", message |-> "is not valid JSON", errors |-> <<>>]

Issue(path) == [path |-> path, code |-> "invalid_type"]

(***************************************************************************)
(* Zod schemas.                                                            *)
(*   "none"    no schema (the slot is undefined)                           *)
(*   "object"  z.object({k: z.string(), ...}) for the keys of shape, in    *)
(*             that order; unknown keys are stripped                       *)
(*   "errors"  z.object({errors: z.array(z.any())})                        *)
(*   "string"  z.string()                                                  *)
(*   "never"   z.never()                                                   *)
(*   "throw"   z.object({}).passthrough().transform(() => { throw ... })   *)
(***************************************************************************)
NoSchema == [kind |-> "none", shape |-> <<>>]

ZObject(shape) == [kind |-> "object", shape |-> shape]

ZErrors == [kind |-> "errors", shape |-> <<>>]

ZString == [kind |-> "string", shape |-> <<>>]

ZNever == [kind |-> "never", shape |-> <<>>]

ZThrow == [kind |-> "throw", shape |-> <<>>]

TransformError == Error("transform error")

Range(s) == {s[i] : i \in 1..Len(s)}

RECURSIVE ShapeIssues(_, _)
\* The issues of z.object(shape) on an object, in the order of the shape.
ShapeIssues(shape, props) ==
  IF shape = <<>> THEN <<>>
  ELSE (IF props[Head(shape)] = "s" THEN <<>> ELSE <<Issue(Head(shape))>>)
       \o ShapeIssues(Tail(shape), props)

IsObject(v) == v.base = "obj" /\ v.q = 0

\* The result of schema.parse(v): returned value or thrown error.
Ok(v) == [out |-> v, err |-> NoError]

Thrown(err) == [out |-> Undefined, err |-> err]

parse(schema, v) ==
  CASE schema.kind = "object" ->
         IF ~IsObject(v) THEN Thrown(ZodError(<<Issue("")>>))
         ELSE IF ShapeIssues(schema.shape, v.o) # <<>>
           THEN Thrown(ZodError(ShapeIssues(schema.shape, v.o)))
           ELSE Ok([v EXCEPT !.o = [k \in Keys |->
                       IF k \in Range(schema.shape) THEN v.o[k] ELSE "-"],
                             !.e = <<>>])
    [] schema.kind = "errors" ->
         IF IsObject(v) /\ v.o["errors"] = "a"
           THEN Ok([v EXCEPT !.o = [k \in Keys |->
                       IF k = "errors" THEN "a" ELSE "-"]])
           ELSE Thrown(ZodError(<<Issue(IF IsObject(v) THEN "errors" ELSE "")>>))
    [] schema.kind = "string" ->
         IF IsString(v) THEN Ok(v) ELSE Thrown(ZodError(<<Issue("")>>))
    [] schema.kind = "never" -> Thrown(ZodError(<<Issue("")>>))
    [] schema.kind = "throw" ->
         IF IsObject(v) THEN Thrown(TransformError)
         ELSE Thrown(ZodError(<<Issue("")>>))

(***************************************************************************)
(* The route: the contract given to validate(), and how the unit was       *)
(* mounted.  Both are fixed when the route is registered.                  *)
(***************************************************************************)
VARIABLES
  schemas,           \* the Schema Contract passed to validate(schemas)
  form,              \* "direct": validate(schemas) mounted as a handler,
                     \* "attach": validate(schemas).use(handler) mounted
  pc,                \* where the request is in the handler chain
  req,               \* the request: headers, body, query, params
  arrived,           \* the five inputs as the request arrived with them
  res,               \* the response object (see NewResponse)
  trace,             \* what the response operations did (see NoTrace)
  validationErrors,  \* the ZodErrors collected by the middleware
  ran,               \* the categories whose schema was run
  thrown,            \* the error in flight inside the middleware's try
  inTry,             \* the attached handler still runs inside middleware()
  nsel,              \* status selections made by the handler so far
  nextCalls,         \* the calls of the host's next, as a sequence of errors
  handlerRan,        \* the downstream / attached handler was given control
  emit,              \* the emission the handler made (see NoEmit)
  hostErr,           \* the errors the host's error handler received
  finalErr,          \* the error the host's final handler received
  dropped,           \* an error thrown where no caller catches it
  exposed,           \* the `schemas` property of the mounted unit
  peers,             \* two responses of the same route, in flight together
  app,               \* the router tree given to generateOpenApiSpec
  config,            \* the configuration given to generateOpenApiSpec
  document           \* the routes registered and the document generated

\* The state of one request on its route.
routeVars == <<schemas, form, pc, req, arrived, res, trace, validationErrors, ran,
               thrown, inTry, nsel, nextCalls, handlerRan, emit, hostErr, finalErr,
               dropped, exposed>>

\* What the processing of one request leaves alone.
others == <<peers, app, config, document>>

vars == <<routeVars, others>>

StatusCodes == {200, 400, 404, 500}

Categories == <<"headers", "body", "query", "params", "locals">>

\* typedResponse = schemas.useResponse (line 573); a status without an entry
\* reads as undefined.
typedResponse(code) == schemas.useResponse[code]

\* 'useResponse' in schemas && schemas.useResponse (lines 572, 658)
HasUseResponse == schemas.typed

\* z.infer<schema>: "never" for z.never(), the kind of value otherwise.
infer(schema) == IF schema.kind = "never" THEN "never" ELSE schema.kind

\* TypedJsonResponse with the test on the key only.
TypedJsonResponse_keyOnly(code) ==
  IF ~HasUseResponse \/ typedResponse(code) = NoSchema THEN "never"
  ELSE "unknown"

\* TypedJsonResponse<T, Status> (lines 432-438): the static type of the body
\* json and send take after status(Status).
TypedJsonResponse(code) ==
  IF ~HasUseResponse THEN "never"
  ELSE IF typedResponse(code) = NoSchema THEN "never"
  ELSE infer(typedResponse(code))

NoSchemaMessage(code) == "No schema defined for status code " \o ToString(code)

MisuseMessage == "When using useResponse, you must call .use() to provide a handler"

(***************************************************************************)
(* The response object.                                                    *)
(*   statusCode  the status the response will carry                        *)
(*   ctype       the Content-Type header, "" while it is not set           *)
(*   ops         which functions the properties status, json and send      *)
(*               hold: "express" (the host's own), "default" (lines        *)
(*               614-642), "chained" (lines 583-611, closed over code)     *)
(*   code        the status the "chained" functions are closed over        *)
(*   locals      res.locals                                                *)
(*   sent        the response was handed to the transport                  *)
(*   body        the payload handed to the transport                       *)
(***************************************************************************)
NewResponse(status, locals) ==
  [statusCode |-> status, ctype |-> "", ops |-> "express", code |-> 0,
   locals |-> locals, sent |-> FALSE, body |-> Undefined]

\* consulted: the schema lookups that reached schema.parse, in order;
\* handed: the values given to originalJson / originalSend, in order;
\* selected: the codes res.status was called with, in order.
NoTrace == [consulted |-> <<>>, handed |-> <<>>, selected |-> <<>>]

\* A call in progress: the response, the trace, and the error it threw.
Ctx(r, t) == [res |-> r, trace |-> t, exc |-> NoError]

Throw(ctx, err) == [ctx EXCEPT !.exc = err]

IsJson(ctype) == ctype = "application/json"

RECURSIVE CallJson(_, _), CallSend(_, _)

\* Express res.status(code)
express_status(ctx, code) == [ctx EXCEPT !.res.statusCode = code]

\* Express res.json(obj): serialize, default the Content-Type, this.send(body)
express_json(ctx, obj) ==
  LET c1 == IF ctx.res.ctype = ""
              THEN [ctx EXCEPT !.res.ctype = "application/json"] ELSE ctx
  IN CallSend(c1, JSONstringify(obj))

\* Express res.send(chunk): a string is written (Content-Type text/html unless
\* set), an object is passed to this.json(chunk).
express_send(ctx, chunk) ==
  IF IsString(chunk)
    THEN [ctx EXCEPT !.res.ctype = IF @ = "" THEN "text/html" ELSE @,
                     !.res.sent = TRUE, !.res.body = chunk]
    ELSE CallJson(ctx, chunk)

\* originalJson = res.json.bind(res) (line 575)
originalJson(ctx, v) ==
  express_json([ctx EXCEPT !.trace.handed = Append(@, [op |-> "json", v |-> v])], v)

\* originalSend = res.send.bind(res) (line 576)
originalSend(ctx, v) ==
  express_send([ctx EXCEPT !.trace.handed = Append(@, [op |-> "send", v |-> v])], v)

\* schema.parse(body) inside an intercepted operation, recorded in the trace
Consult(ctx, code, body) ==
  [ctx EXCEPT !.trace.consulted = Append(@, [code |-> code, v |-> body])]

\* chainedRes.json looking its schema up under the default status instead of
\* the selected one.
chainedRes_json_wrongStatus(code, ctx, body) ==
  LET schema == typedResponse(200) IN
  IF schema = NoSchema THEN Throw(ctx, Error(NoSchemaMessage(200)))
  ELSE LET result == parse(schema, body)
           c1 == Consult(ctx, 200, body) IN
       IF result.err # NoError THEN Throw(c1, result.err)
       ELSE originalJson(c1, result.out)

\* chainedRes.json forwarding the handler's body instead of the parsed result.
chainedRes_json_rawBody(code, ctx, body) ==
  LET schema == typedResponse(code) IN
  IF schema = NoSchema THEN Throw(ctx, Error(NoSchemaMessage(code)))
  ELSE LET result == parse(schema, body)
           c1 == Consult(ctx, code, body) IN
       IF result.err # NoError THEN Throw(c1, result.err)
       ELSE originalJson(c1, body)

\* chainedRes.json (lines 586-593)
chainedRes_json(code, ctx, body) ==
  LET schema == typedResponse(code) IN
  IF schema = NoSchema THEN Throw(ctx, Error(NoSchemaMessage(code)))
  ELSE LET result == parse(schema, body)
           c1 == Consult(ctx, code, body) IN
       IF result.err # NoError THEN Throw(c1, result.err)
       ELSE originalJson(c1, result.out)

\* chainedRes.send serializing the result whatever the content type.
chainedRes_send_alwaysEncode(code, ctx, body) ==
  IF IsJson(ctx.res.ctype) /\ ~JSONparses(body) THEN Throw(ctx, SyntaxError)
  ELSE LET b1 == IF IsJson(ctx.res.ctype) THEN JSONparse(body) ELSE body
           schema == typedResponse(code) IN
       IF schema = NoSchema THEN Throw(ctx, Error(NoSchemaMessage(code)))
       ELSE LET result == parse(schema, b1)
                c1 == Consult(ctx, code, b1) IN
            IF result.err # NoError THEN Throw(c1, result.err)
            ELSE originalSend(c1, JSONstringify(result.out))

\* chainedRes.send (lines 594-610)
chainedRes_send(code, ctx, body) ==
  IF IsJson(ctx.res.ctype) /\ ~JSONparses(body) THEN Throw(ctx, SyntaxError)
  ELSE LET b1 == IF IsJson(ctx.res.ctype) THEN JSONparse(body) ELSE body
           schema == typedResponse(code) IN
       IF schema = NoSchema THEN Throw(ctx, Error(NoSchemaMessage(code)))
       ELSE LET result == parse(schema, b1)
                c1 == Consult(ctx, code, b1) IN
            IF result.err # NoError THEN Throw(c1, result.err)
            ELSE IF IsJson(ctx.res.ctype)
              THEN originalSend(c1, JSONstringify(result.out))
              ELSE originalSend(c1, result.out)

DefaultStatus == 200

\* res.json forwarding the handler's body instead of the parsed result.
res_json_rawBody(ctx, body) ==
  LET schema == typedResponse(DefaultStatus) IN
  IF schema = NoSchema THEN Throw(ctx, Error(NoSchemaMessage(DefaultStatus)))
  ELSE LET result == parse(schema, body)
           c1 == Consult(ctx, DefaultStatus, body) IN
       IF result.err # NoError THEN Throw(c1, result.err)
       ELSE originalJson(c1, body)

\* res.json as overridden at lines 616-623
res_json(ctx, body) ==
  LET schema == typedResponse(DefaultStatus) IN
  IF schema = NoSchema THEN Throw(ctx, Error(NoSchemaMessage(DefaultStatus)))
  ELSE LET result == parse(schema, body)
           c1 == Consult(ctx, DefaultStatus, body) IN
       IF result.err # NoError THEN Throw(c1, result.err)
       ELSE originalJson(c1, result.out)

\* res.send validating the serialized string without decoding it.
res_send_noDecode(ctx, body) ==
  LET schema == typedResponse(DefaultStatus) IN
  IF schema = NoSchema THEN Throw(ctx, Error(NoSchemaMessage(DefaultStatus)))
  ELSE LET result == parse(schema, body)
           c1 == Consult(ctx, DefaultStatus, body) IN
       IF result.err # NoError THEN Throw(c1, result.err)
       ELSE IF IsJson(ctx.res.ctype)
         THEN originalSend(c1, JSONstringify(result.out))
         ELSE originalSend(c1, result.out)

\* res.send handing the body on without consulting a schema.
res_send_unchecked(ctx, body) == originalSend(ctx, body)

\* res.send as overridden at lines 625-642
res_send(ctx, body) ==
  IF IsJson(ctx.res.ctype) /\ ~JSONparses(body) THEN Throw(ctx, SyntaxError)
  ELSE LET b1 == IF IsJson(ctx.res.ctype) THEN JSONparse(body) ELSE body
           schema == typedResponse(DefaultStatus) IN
       IF schema = NoSchema THEN Throw(ctx, Error(NoSchemaMessage(DefaultStatus)))
       ELSE LET result == parse(schema, b1)
                c1 == Consult(ctx, DefaultStatus, b1) IN
            IF result.err # NoError THEN Throw(c1, result.err)
            ELSE IF IsJson(ctx.res.ctype)
              THEN originalSend(c1, JSONstringify(result.out))
              ELSE originalSend(c1, result.out)

\* createChainedResponse refusing a status that has no entry.
createChainedResponse_eager(ctx, code) ==
  IF typedResponse(code) = NoSchema THEN Throw(ctx, Error(NoSchemaMessage(code)))
  ELSE [express_status(ctx, code) EXCEPT !.res.ops = "chained", !.res.code = code]

\* createChainedResponse keeping the functions of the first selection.
createChainedResponse_firstWins(ctx, code) ==
  IF ctx.res.ops = "chained" THEN express_status(ctx, code)
  ELSE [express_status(ctx, code) EXCEPT !.res.ops = "chained", !.res.code = code]

\* createChainedResponse(code) (lines 583-612): originalStatus(code), then
\* json and send of the response are replaced by functions closed over code.
createChainedResponse(ctx, code) ==
  [express_status(ctx, code) EXCEPT !.res.ops = "chained", !.res.code = code]

\* res.status(code): the function the property holds now (line 614)
CallStatus(ctx, code) ==
  LET c1 == [ctx EXCEPT !.trace.selected = Append(@, code)] IN
  IF ctx.res.ops = "express" THEN express_status(c1, code)
  ELSE createChainedResponse(c1, code)

\* res.json(body): the function the property holds now
CallJson(ctx, body) ==
  CASE ctx.res.ops = "express" -> express_json(ctx, body)
    [] ctx.res.ops = "default" -> res_json(ctx, body)
    [] ctx.res.ops = "chained" -> chainedRes_json(ctx.res.code, ctx, body)

\* res.send(body): the function the property holds now
CallSend(ctx, body) ==
  CASE ctx.res.ops = "express" -> express_send(ctx, body)
    [] ctx.res.ops = "default" -> res_send(ctx, body)
    [] ctx.res.ops = "chained" -> chainedRes_send(ctx.res.code, ctx, body)

\* The interception installed at lines 572-643.
InstallInterception(r) == [r EXCEPT !.ops = "default"]

(***************************************************************************)
(* The contracts, requests and handler behaviours explored.                *)
(***************************************************************************)
Props(m, e, x) == [k \in Keys |-> CASE k = "message" -> m [] k = "error" -> e
                                    [] k = "extra" -> x [] OTHER -> "-"]

\* z.object({message: z.string(), error: z.string()})
Obj2 == ZObject(<<"message", "error">>)

\* z.object({message: z.string()}) and z.object({error: z.string()})
Msg == ZObject(<<"message">>)

Err == ZObject(<<"error">>)

GoodInput == Obj(Props("s", "s", "s"))

Bad1Input == Obj(Props("s", "n", "s"))

Bad2Input == Obj(Props("-", "-", "s"))

\* Header collections: a repeated header (a list), a key that is not
\* lowercase, a header holding undefined, an empty list.
GoodHeaders == Obj(Props("s", "l", "s"))

MixedHeaders == Obj([Props("-", "s", "s") EXCEPT !["Message"] = "s"])

Bad1Headers == Obj(Props("u", "s", "s"))

Bad2Headers == Obj(Props("-", "e", "s"))

Inputs(cat, schema) ==
  IF schema # Obj2 THEN {GoodInput}
  ELSE IF cat = "headers" THEN {GoodHeaders, MixedHeaders, Bad1Headers, Bad2Headers}
  ELSE IF cat = "body" THEN {GoodInput, Bad1Input, Bad2Input}
  ELSE {GoodInput, Bad1Input}

NoMap == [c \in StatusCodes |-> NoSchema]

Map(s200, s400, s404) ==
  [c \in StatusCodes |-> CASE c = 200 -> s200 [] c = 400 -> s400
                           [] c = 404 -> s404 [] OTHER -> NoSchema]

\* A map that also registers the status of the host's error handler.
With500(m) == [m EXCEPT ![500] = Err]

TypedMaps == {Map(a, b, c) : a \in {NoSchema, Msg, ZString, ZThrow},
                             b \in {NoSchema, ZErrors, Err},
                             c \in {NoSchema, Err, Msg, ZNever}}
             \cup {With500(Map(Msg, NoSchema, NoSchema)),
                   With500(Map(NoSchema, ZErrors, Err))}

Contract(h, b, q, p, l, r, t, u) ==
  [headers |-> h, body |-> b, query |-> q, params |-> p, locals |-> l,
   response |-> r, typed |-> t, useResponse |-> u]

NoResponse == [response |-> NoSchema, typed |-> FALSE, useResponse |-> NoMap]

\* Contracts that vary the request side (at most one schema that throws),
\* with no response schema.
RequestContracts ==
  {c \in {Contract(h, b, q, p, l, NoSchema, FALSE, NoMap) :
            h \in {NoSchema, Obj2, ZThrow}, b \in {NoSchema, Obj2, ZThrow},
            q \in {NoSchema, Obj2, ZThrow}, p \in {NoSchema, Obj2, ZThrow},
            l \in {NoSchema, Obj2, ZThrow}} :
     Cardinality({i \in 1..5 : c[Categories[i]] = ZThrow}) <= 1}

\* Contracts that vary the response side: every typed map, and the simple
\* mode; with no request-side schema, or with a body schema.
ResponseContracts ==
  {Contract(NoSchema, NoSchema, NoSchema, NoSchema, NoSchema, NoSchema, TRUE, u) :
     u \in TypedMaps}
  \cup {Contract(NoSchema, b, NoSchema, NoSchema, NoSchema, NoSchema, TRUE, u) :
     b \in {Obj2, ZThrow}, u \in {Map(Msg, ZErrors, NoSchema), Map(Msg, NoSchema, Err),
                                  Map(Msg, Err, NoSchema)}}
  \cup {Contract(NoSchema, NoSchema, NoSchema, NoSchema, NoSchema, Msg, FALSE, NoMap)}

Contracts == RequestContracts \cup ResponseContracts

\* The bodies a handler emits.
Bodies ==
  {Obj(Props("s", "-", "-")), Obj(Props("s", "-", "s")), Obj(Props("-", "s", "-")),
   JSONstringify(Obj(Props("s", "-", "-"))), JSONstringify(Obj(Props("s", "-", "s"))),
   Text("Hello World")}

\* res.type(...) as the handlers of the tests call it
ContentTypes == {"application/json", "text/plain"}

\* How many times a handler selects a status.
MaxSelect == 2

\* A status an earlier middleware may have left on the response.
PreStatuses == {200, 404}

(***************************************************************************)
(* The initial state: nothing registered yet.                              *)
(***************************************************************************)
\* The handler's emission: the operation, the body, the functions json/send
\* held when it was called, and what the call did before it returned or threw.
NoEmit == [op |-> "none", body |-> Undefined, ops |-> "express", code |-> 0,
           status |-> 0, ctype |-> "", selections |-> <<>>,
           consulted |-> <<>>, handed |-> <<>>,
           exc |-> NoError, sent |-> FALSE, wire |-> Undefined]

NoRequest == [headers |-> Undefined, body |-> Undefined, query |-> Undefined,
              params |-> Undefined]

\* No unit is mounted yet.
NoSchemas == [mounted |-> FALSE]

Init ==
  /\ schemas \in Contracts
  /\ form \in {"direct", "attach"}
  /\ pc = "start"
  /\ req = NoRequest
  /\ arrived = [c \in Range(Categories) |-> Undefined]
  /\ res = NewResponse(200, Undefined)
  /\ trace = NoTrace
  /\ validationErrors = <<>>
  /\ ran = {}
  /\ thrown = NoError
  /\ inTry = FALSE
  /\ nsel = 0
  /\ nextCalls = <<>>
  /\ handlerRan = FALSE
  /\ emit = NoEmit
  /\ hostErr = <<>>
  /\ finalErr = NoError
  /\ dropped = NoError
  /\ exposed = NoSchemas
  /\ peers = <<>>
  /\ app = <<>>
  /\ config = <<>>
  /\ document = <<>>

\* The unit mounted without a `schemas` property.
Register_noSchemas ==
  /\ pc = "start"
  /\ pc' = "idle"
  /\ UNCHANGED <<others, exposed, schemas, form, arrived, req, res, trace,
                 validationErrors, ran, thrown, inTry, nsel, nextCalls, handlerRan,
                 emit, hostErr, finalErr, dropped>>

\* validate(schemas) or validate(schemas).use(handler) is evaluated and the
\* unit is mounted on the route (lines 474-694: closures are built, and
\* Object.assign puts `schemas` on the unit, lines 666-668 and 687-689).
Register ==
  /\ pc = "start"
  /\ pc' = "idle"
  /\ exposed' = schemas
  /\ UNCHANGED <<others, schemas, form, arrived, req, res, trace, validationErrors, ran, thrown,
                 inTry, nsel, nextCalls, handlerRan, emit, hostErr, finalErr, dropped>>

\* A request reaches the route.
Arrive ==
  /\ pc = "idle"
  /\ \E h \in Inputs("headers", schemas.headers),
        b \in Inputs("body", schemas.body),
        q \in Inputs("query", schemas.query),
        p \in Inputs("params", schemas.params),
        l \in Inputs("locals", schemas.locals),
        st \in PreStatuses :
       /\ req' = [headers |-> h, body |-> b, query |-> q, params |-> p]
       /\ res' = NewResponse(st, l)
       /\ arrived' = [c \in Range(Categories) |->
                        CASE c = "headers" -> h [] c = "body" -> b
                          [] c = "query" -> q [] c = "params" -> p
                          [] c = "locals" -> l]
  /\ pc' = "entry"
  /\ UNCHANGED <<others, exposed, schemas, form, trace, validationErrors, ran, thrown,
                 inTry, nsel, nextCalls, handlerRan, emit, hostErr, finalErr, dropped>>

(***************************************************************************)
(* The middleware (lines 479-655), split at the points where its position  *)
(* changes: one step per category, then the decision, then the catch.      *)
(***************************************************************************)
\* The errors kept by the host for its error handler: next(err), or a throw
\* the host's layer catches.
ToHost(err) ==
  /\ hostErr' = Append(hostErr, err)
  /\ pc' = "error"

\* The body { errors: issues } (lines 566, 648)
ErrorBody(issues) ==
  [base |-> "obj", o |-> [k \in Keys |-> IF k = "errors" THEN "a" ELSE "-"],
   e |-> issues, txt |-> "", q |-> 0]

\* The catch block of the middleware (lines 646-654) for the error err, on the
\* response as the try block left it.  A ZodError is answered with
\* res.status(400).json({errors}) through the functions the response holds
\* now; an error thrown there leaves the middleware and is caught by the
\* host's layer.  Any other error goes to next(error), which in the attach
\* form is the callback of line 678 that passes it to the host's next.
Catch(err, ctx) ==
  IF err.kind = "ZodError"
    THEN LET c0 == Ctx(ctx.res, ctx.trace)
             c2 == CallJson(CallStatus(c0, 400), ErrorBody(err.errors)) IN
         /\ res' = c2.res
         /\ trace' = c2.trace
         /\ UNCHANGED nextCalls
         /\ IF c2.exc = NoError
              THEN pc' = "done" /\ UNCHANGED hostErr
              ELSE ToHost(c2.exc)
    ELSE /\ res' = ctx.res
         /\ trace' = ctx.trace
         /\ nextCalls' = Append(nextCalls, err)
         /\ ToHost(err)

\* wrappedMiddleware without its guard.
wrappedMiddleware_noGuard ==
  /\ pc = "entry" /\ form = "direct"
  /\ pc' = "headers"
  /\ UNCHANGED <<others, exposed, schemas, form, arrived, req, res, trace, validationErrors, ran,
                 thrown, inTry, nsel, nextCalls, handlerRan, emit, hostErr,
                 finalErr, dropped>>

\* wrappedMiddleware with a guard that fires only for a contract without
\* request-side schemas.
wrappedMiddleware_guardBare ==
  /\ pc = "entry" /\ form = "direct"
  /\ IF HasUseResponse /\ \A i \in 1..5 : schemas[Categories[i]] = NoSchema
       THEN ToHost(Error(MisuseMessage))
       ELSE pc' = "headers" /\ UNCHANGED hostErr
  /\ UNCHANGED <<others, exposed, schemas, form, arrived, req, res, trace, validationErrors, ran, thrown,
                 inTry, nsel, nextCalls, handlerRan, emit, finalErr, dropped>>

\* wrappedMiddleware (lines 657-664): the direct form.  With a typed map it
\* throws; the host's layer catches the throw.
wrappedMiddleware ==
  /\ pc = "entry" /\ form = "direct"
  /\ IF HasUseResponse
       THEN ToHost(Error(MisuseMessage))
       ELSE pc' = "headers" /\ UNCHANGED hostErr
  /\ UNCHANGED <<others, exposed, schemas, form, arrived, req, res, trace, validationErrors, ran, thrown,
                 inTry, nsel, nextCalls, handlerRan, emit, finalErr, dropped>>

\* handlerWrapper (lines 674-685): the attach form calls middleware(req, res, cb)
handlerWrapper ==
  /\ pc = "entry" /\ form = "attach"
  /\ pc' = "headers"
  /\ UNCHANGED <<others, exposed, schemas, form, arrived, req, res, trace, validationErrors, ran, thrown,
                 inTry, nsel, nextCalls, handlerRan, emit, hostErr, finalErr, dropped>>

Lower(k) == IF k = "Message" THEN "message" ELSE k

\* headerData (lines 484-499): keys lowercased; a string kept, a list replaced
\* by its first element, anything else undefined.  A key that is not
\* lowercase is enumerated after the parsed headers and wins.
HeaderValue(kind) ==
  CASE kind = "-" -> "-"
    [] kind \in {"s", "l"} -> "s"
    [] OTHER -> "u"

\* headerData keeping the keys as they are spelled.
headerData_noLower(headers) ==
  [headers EXCEPT !.o = [k \in Keys |-> HeaderValue(headers.o[k])]]

headerData(headers) ==
  [headers EXCEPT !.o = [k \in Keys |->
     IF \E u \in Keys : u # k /\ Lower(u) = k /\ headers.o[u] # "-"
       THEN HeaderValue(headers.o[CHOOSE u \in Keys :
                                    u # k /\ Lower(u) = k /\ headers.o[u] # "-"])
     ELSE IF Lower(k) # k THEN "-"
     ELSE HeaderValue(headers.o[k])]]

\* Object.assign(target, source) (line 502)
ObjectAssign(target, source) ==
  [target EXCEPT !.o = [k \in Keys |->
     IF source.o[k] # "-" THEN source.o[k] ELSE target.o[k]]]

\* One category of the try block: the schema's verdict on the input.
\*   "skip" no schema, "ok" parsed, "issue" a ZodError, "throw" another error
Verdict(schema, input) ==
  IF schema = NoSchema THEN "skip"
  ELSE LET result == parse(schema, input) IN
       CASE result.err = NoError -> "ok"
         [] result.err.kind = "ZodError" -> "issue"
         [] OTHER -> "throw"

\* A category that swallows what is not a ZodError and goes on.
Collect_swallow(cat, schema, input, nextpc) ==
  LET v == Verdict(schema, input)
      result == parse(schema, input) IN
  /\ ran' = IF v = "skip" THEN ran ELSE ran \cup {cat}
  /\ validationErrors' = IF v = "issue" THEN Append(validationErrors, result.err)
                         ELSE validationErrors
  /\ pc' = nextpc
  /\ UNCHANGED <<thrown, nextCalls, hostErr>>

\* A category that stops the validation at its first ZodError.
Collect_shortCircuit(cat, schema, input, nextpc) ==
  LET v == Verdict(schema, input)
      result == parse(schema, input) IN
  /\ ran' = IF v = "skip" THEN ran ELSE ran \cup {cat}
  /\ validationErrors' = IF v = "issue" THEN Append(validationErrors, result.err)
                         ELSE validationErrors
  /\ IF v = "throw"
       THEN /\ thrown' = result.err
            /\ nextCalls' = Append(nextCalls, result.err)
            /\ ToHost(result.err)
       ELSE /\ pc' = IF v = "issue" THEN "decide" ELSE nextpc
            /\ UNCHANGED <<thrown, nextCalls, hostErr>>

\* What every category does besides the write-back (lines 500-509 and alike):
\* a ZodError is pushed, any other error is rethrown to the outer catch.
Collect(cat, schema, input, nextpc) ==
  LET v == Verdict(schema, input)
      result == parse(schema, input) IN
  /\ ran' = IF v = "skip" THEN ran ELSE ran \cup {cat}
  /\ validationErrors' = IF v = "issue" THEN Append(validationErrors, result.err)
                         ELSE validationErrors
  /\ IF v = "throw"
       THEN /\ thrown' = result.err
            /\ nextCalls' = Append(nextCalls, result.err)
            /\ ToHost(result.err)
       ELSE /\ pc' = nextpc
            /\ UNCHANGED <<thrown, nextCalls, hostErr>>

\* The headers block replacing req.headers by the validated result.
ValidateHeaders_replace ==
  /\ pc = "headers"
  /\ Collect("headers", schemas.headers, headerData(req.headers), "body")
  /\ req' = IF Verdict(schemas.headers, headerData(req.headers)) = "ok"
              THEN [req EXCEPT !.headers =
                      parse(schemas.headers, headerData(req.headers)).out]
              ELSE req
  /\ UNCHANGED <<others, exposed, schemas, form, arrived, res, trace, inTry, nsel, handlerRan, emit,
                 finalErr, dropped>>

\* lines 483-510
ValidateHeaders ==
  /\ pc = "headers"
  /\ Collect("headers", schemas.headers, headerData(req.headers), "body")
  /\ req' = IF Verdict(schemas.headers, headerData(req.headers)) = "ok"
              THEN [req EXCEPT !.headers =
                      ObjectAssign(@, parse(schemas.headers, headerData(req.headers)).out)]
              ELSE req
  /\ UNCHANGED <<others, exposed, schemas, form, arrived, res, trace, inTry, nsel, handlerRan, emit,
                 finalErr, dropped>>

\* The body block validating without replacing req.body.
ValidateBody_noWriteBack ==
  /\ pc = "body"
  /\ Collect("body", schemas.body, req.body, "query")
  /\ UNCHANGED <<others, exposed, schemas, form, arrived, req, res, trace, inTry, nsel, handlerRan, emit,
                 finalErr, dropped>>

\* lines 512-523
ValidateBody ==
  /\ pc = "body"
  /\ Collect("body", schemas.body, req.body, "query")
  /\ req' = IF Verdict(schemas.body, req.body) = "ok"
              THEN [req EXCEPT !.body = parse(schemas.body, req.body).out]
              ELSE req
  /\ UNCHANGED <<others, exposed, schemas, form, arrived, res, trace, inTry, nsel, handlerRan, emit,
                 finalErr, dropped>>

\* The query block assigning the result whether the schema accepted or not.
ValidateQuery_clobber ==
  /\ pc = "query"
  /\ Collect("query", schemas.query, req.query, "params")
  /\ req' = IF Verdict(schemas.query, req.query) # "skip"
              THEN [req EXCEPT !.query = parse(schemas.query, req.query).out]
              ELSE req
  /\ UNCHANGED <<others, exposed, schemas, form, arrived, res, trace, inTry, nsel, handlerRan, emit,
                 finalErr, dropped>>

\* lines 525-536
ValidateQuery ==
  /\ pc = "query"
  /\ Collect("query", schemas.query, req.query, "params")
  /\ req' = IF Verdict(schemas.query, req.query) = "ok"
              THEN [req EXCEPT !.query = parse(schemas.query, req.query).out]
              ELSE req
  /\ UNCHANGED <<others, exposed, schemas, form, arrived, res, trace, inTry, nsel, handlerRan, emit,
                 finalErr, dropped>>

\* lines 538-549
ValidateParams ==
  /\ pc = "params"
  /\ Collect("params", schemas.params, req.params, "locals")
  /\ req' = IF Verdict(schemas.params, req.params) = "ok"
              THEN [req EXCEPT !.params = parse(schemas.params, req.params).out]
              ELSE req
  /\ UNCHANGED <<others, exposed, schemas, form, arrived, res, trace, inTry, nsel, handlerRan, emit,
                 finalErr, dropped>>

\* lines 551-562
ValidateLocals ==
  /\ pc = "locals"
  /\ Collect("locals", schemas.locals, res.locals, "decide")
  /\ res' = IF Verdict(schemas.locals, res.locals) = "ok"
              THEN [res EXCEPT !.locals = parse(schemas.locals, res.locals).out]
              ELSE res
  /\ UNCHANGED <<others, exposed, schemas, form, arrived, req, trace, inTry, nsel, handlerRan, emit,
                 finalErr, dropped>>

RECURSIVE Flatten_reversed(_)
\* The issues of the later errors first.
Flatten_reversed(errs) ==
  IF errs = <<>> THEN <<>> ELSE Flatten_reversed(Tail(errs)) \o Head(errs).errors

RECURSIVE Flatten(_)
\* validationErrors.flatMap(error => error.errors) (line 565)
Flatten(errs) ==
  IF errs = <<>> THEN <<>> ELSE Head(errs).errors \o Flatten(Tail(errs))

\* The aggregated 400 followed by next().
Respond400_andContinue ==
  /\ pc = "decide"
  /\ validationErrors # <<>>
  /\ LET c2 == CallJson(CallStatus(Ctx(res, trace), 400),
                        ErrorBody(Flatten(validationErrors))) IN
       /\ res' = c2.res
       /\ trace' = c2.trace
  /\ nextCalls' = Append(nextCalls, NoError)
  /\ pc' = "done"
  /\ UNCHANGED <<others, exposed, schemas, form, arrived, req, validationErrors, ran, thrown, inTry, nsel,
                 handlerRan, emit, hostErr, finalErr, dropped>>

\* The aggregated 400 sent after the interception was installed.
Respond400_intercepted ==
  /\ pc = "decide"
  /\ validationErrors # <<>>
  /\ LET r0 == IF HasUseResponse THEN InstallInterception(res) ELSE res
         c2 == CallJson(CallStatus(Ctx(r0, trace), 400),
                        ErrorBody(Flatten(validationErrors))) IN
       /\ res' = c2.res
       /\ trace' = c2.trace
       /\ IF c2.exc = NoError THEN pc' = "done" /\ UNCHANGED hostErr
          ELSE ToHost(c2.exc)
  /\ UNCHANGED <<others, exposed, schemas, form, arrived, req, validationErrors, ran, thrown, inTry, nsel,
                 nextCalls, handlerRan, emit, finalErr, dropped>>

\* lines 564-570: the aggregated 400, sent with the functions the response
\* holds at that point.
Respond400 ==
  /\ pc = "decide"
  /\ validationErrors # <<>>
  /\ LET c2 == CallJson(CallStatus(Ctx(res, trace), 400),
                        ErrorBody(Flatten(validationErrors))) IN
       /\ res' = c2.res
       /\ trace' = c2.trace
       /\ IF c2.exc = NoError THEN pc' = "done" /\ UNCHANGED hostErr
          ELSE ToHost(c2.exc)
  /\ UNCHANGED <<others, exposed, schemas, form, arrived, req, validationErrors, ran, thrown, inTry, nsel,
                 nextCalls, handlerRan, emit, finalErr, dropped>>

\* The chain continued whatever was collected.
Continue_unguarded ==
  /\ pc = "decide"
  /\ res' = IF HasUseResponse THEN InstallInterception(res) ELSE res
  /\ nextCalls' = Append(nextCalls, NoError)
  /\ handlerRan' = TRUE
  /\ inTry' = TRUE
  /\ pc' = "handler"
  /\ UNCHANGED <<others, exposed, schemas, form, arrived, req, trace, validationErrors, ran, thrown,
                 nsel, emit, hostErr, finalErr, dropped>>

\* The chain continued without the interception.
Continue_noInstall ==
  /\ pc = "decide"
  /\ validationErrors = <<>>
  /\ nextCalls' = Append(nextCalls, NoError)
  /\ handlerRan' = TRUE
  /\ inTry' = TRUE
  /\ pc' = "handler"
  /\ UNCHANGED <<others, exposed, schemas, form, arrived, req, res, trace, validationErrors, ran, thrown,
                 nsel, emit, hostErr, finalErr, dropped>>

\* lines 572-645: the interception is installed when the contract has a typed
\* map, then next() gives control to the handler: the downstream handler
\* (direct form, run by the host inside its layer's try) or the attached
\* handler (attach form, run by the callback of line 678 inside the try of
\* the middleware).
Continue ==
  /\ pc = "decide"
  /\ validationErrors = <<>>
  /\ res' = IF HasUseResponse THEN InstallInterception(res) ELSE res
  /\ nextCalls' = Append(nextCalls, NoError)
  /\ handlerRan' = TRUE
  /\ inTry' = TRUE
  /\ pc' = "handler"
  /\ UNCHANGED <<others, exposed, schemas, form, arrived, req, trace, validationErrors, ran, thrown, nsel,
                 emit, hostErr, finalErr, dropped>>

(***************************************************************************)
(* The handler that runs after the middleware: the downstream handler of   *)
(* the direct form or the handler given to use().  It may set the content  *)
(* type, select statuses, give up its caller's stack (an asynchronous      *)
(* handler that awaits), and emit one body or none.                        *)
(***************************************************************************)
\* The statuses a handler selects.
SelectCodes == {200, 400, 404}

\* res.type(ct)
HandlerType ==
  /\ pc = "handler"
  /\ res.ctype = ""
  /\ \E ct \in ContentTypes : res' = [res EXCEPT !.ctype = ct]
  /\ UNCHANGED <<others, exposed, schemas, form, arrived, pc, req, trace, validationErrors, ran, thrown,
                 inTry, nsel, nextCalls, handlerRan, emit, hostErr, finalErr,
                 dropped>>

\* A call made by the handler threw, c1 being the call as it threw.  A throw
\* inside the try of the middleware (attach form, line 645) reaches its catch
\* block; a throw inside the host's layer (direct form) reaches the host; a
\* throw after an await reaches nobody.
HandlerThrow(c1) ==
  IF inTry /\ form = "attach"
    THEN /\ thrown' = c1.exc
         /\ Catch(c1.exc, c1)
         /\ UNCHANGED dropped
  ELSE IF inTry
    THEN /\ res' = c1.res
         /\ trace' = c1.trace
         /\ ToHost(c1.exc)
         /\ UNCHANGED <<thrown, nextCalls, dropped>>
  ELSE /\ res' = c1.res
       /\ trace' = c1.trace
       /\ dropped' = c1.exc
       /\ pc' = "done"
       /\ UNCHANGED <<thrown, nextCalls, hostErr>>

\* res.status(code)
HandlerStatus ==
  /\ pc = "handler"
  /\ nsel < MaxSelect
  /\ \E code \in SelectCodes :
       LET c1 == CallStatus(Ctx(res, trace), code) IN
       IF c1.exc = NoError
         THEN /\ res' = c1.res
              /\ trace' = c1.trace
              /\ UNCHANGED <<pc, thrown, nextCalls, hostErr, dropped>>
         ELSE HandlerThrow(c1)
  /\ nsel' = nsel + 1
  /\ UNCHANGED <<others, exposed, schemas, form, arrived, req, validationErrors, ran, inTry,
                 handlerRan, emit, finalErr>>

\* The handler awaits: handlerWrapper and middleware() have returned (or the
\* host's layer has) when the handler goes on.
HandlerAwait ==
  /\ pc = "handler"
  /\ inTry
  /\ inTry' = FALSE
  /\ UNCHANGED <<others, exposed, schemas, form, arrived, pc, req, res, trace, validationErrors, ran,
                 thrown, nsel, nextCalls, handlerRan, emit, hostErr, finalErr,
                 dropped>>

\* The handler returns without a body.
HandlerEnd ==
  /\ pc = "handler"
  /\ pc' = "done"
  /\ UNCHANGED <<others, exposed, schemas, form, arrived, req, res, trace, validationErrors, ran, thrown,
                 inTry, nsel, nextCalls, handlerRan, emit, hostErr, finalErr,
                 dropped>>

Suffix(s, n) == SubSeq(s, n + 1, Len(s))

\* An emission by the handler, c1 being the call as it returned or threw.
Emission(op, body, c1) ==
  /\ emit' = [op |-> op, body |-> body, ops |-> res.ops, code |-> res.code,
              status |-> res.statusCode, ctype |-> res.ctype,
              selections |-> trace.selected,
              consulted |-> Suffix(c1.trace.consulted, Len(trace.consulted)),
              handed |-> Suffix(c1.trace.handed, Len(trace.handed)),
              exc |-> c1.exc, sent |-> c1.res.sent, wire |-> c1.res.body]
  /\ IF c1.exc = NoError
       THEN /\ res' = c1.res
            /\ trace' = c1.trace
            /\ pc' = "done"
            /\ UNCHANGED <<thrown, nextCalls, hostErr, dropped>>
       ELSE HandlerThrow(c1)

\* res.json(body)
HandlerJson ==
  /\ pc = "handler"
  /\ \E body \in Bodies : Emission("json", body, CallJson(Ctx(res, trace), body))
  /\ UNCHANGED <<others, exposed, schemas, form, arrived, req, validationErrors, ran, inTry, nsel,
                 handlerRan, finalErr>>

\* res.send(body)
HandlerSend ==
  /\ pc = "handler"
  /\ \E body \in Bodies : Emission("send", body, CallSend(Ctx(res, trace), body))
  /\ UNCHANGED <<others, exposed, schemas, form, arrived, req, validationErrors, ran, inTry, nsel,
                 handlerRan, finalErr>>

(***************************************************************************)
(* The host's error handler, as the tests mount it (validate.test.ts lines *)
(* 55-57): res.status(500).json({ error: 'Internal server error' }).  An   *)
(* error it throws goes to the host's final handler, which writes a 500    *)
(* without using res.json or res.send.                                     *)
(***************************************************************************)
ErrorStatus == 500

\* The error handler given a response whose overrides were discarded.
errorHandler_discarded ==
  /\ pc = "error"
  /\ LET c2 == CallJson(CallStatus(Ctx([res EXCEPT !.ops = "express"], trace),
                                   ErrorStatus),
                        Obj(Props("-", "s", "-"))) IN
       /\ trace' = c2.trace
       /\ finalErr' = c2.exc
       /\ res' = c2.res
  /\ pc' = "done"
  /\ UNCHANGED <<others, exposed, schemas, form, arrived, req, validationErrors, ran, thrown, inTry, nsel,
                 nextCalls, handlerRan, emit, hostErr, dropped>>

errorHandler ==
  /\ pc = "error"
  /\ LET c2 == CallJson(CallStatus(Ctx(res, trace), ErrorStatus),
                        Obj(Props("-", "s", "-"))) IN
       /\ trace' = c2.trace
       /\ finalErr' = c2.exc
       /\ res' = IF c2.exc = NoError THEN c2.res
                 ELSE [c2.res EXCEPT !.sent = TRUE, !.ctype = "text/html",
                                     !.body = Text("Internal Server Error")]
  /\ pc' = "done"
  /\ UNCHANGED <<others, exposed, schemas, form, arrived, req, validationErrors, ran, thrown, inTry, nsel,
                 nextCalls, handlerRan, emit, hostErr, dropped>>

Next ==
  \/ Register
  \/ Arrive
  \/ wrappedMiddleware
  \/ handlerWrapper
  \/ ValidateHeaders
  \/ ValidateBody
  \/ ValidateQuery
  \/ ValidateParams
  \/ ValidateLocals
  \/ Respond400
  \/ Continue
  \/ HandlerType
  \/ HandlerStatus
  \/ HandlerAwait
  \/ HandlerEnd
  \/ HandlerJson
  \/ HandlerSend
  \/ errorHandler

Spec == Init /\ [][Next]_vars

(***************************************************************************)
(* Two requests on the same route, interleaved.  Both responses went       *)
(* through the same middleware instance (one validate(schemas) call, lines *)
(* 474-694); each gets its own closures when the middleware reaches line   *)
(* 572 for it.  Only the response side is followed here.                   *)
(***************************************************************************)
PeerIds == {1, 2}

\* The typed maps of the route the two requests hit.
PeerMaps == {Map(Msg, ZErrors, NoSchema), Map(Msg, NoSchema, Err),
             Map(NoSchema, Err, Msg), Map(ZString, ZErrors, Err)}

\* The bodies the two handlers emit.
PeerBodies == {Obj(Props("s", "-", "-")), Obj(Props("-", "s", "-")), Text("Hello World")}

\* A response on which the middleware has not run yet: sel is the status its
\* own handler selected last (0: none), n how many selections it made.
NewPeer == [res |-> NewResponse(200, Undefined), trace |-> NoTrace, sel |-> 0,
            n |-> 0, emit |-> NoEmit]

InitTwo ==
  /\ schemas \in {Contract(NoSchema, NoSchema, NoSchema, NoSchema, NoSchema,
                             NoSchema, TRUE, u) : u \in PeerMaps}
  /\ form = "attach"
  /\ pc = "idle"
  /\ req = NoRequest
  /\ arrived = [c \in Range(Categories) |-> Undefined]
  /\ res = NewResponse(200, Undefined)
  /\ trace = NoTrace
  /\ validationErrors = <<>>
  /\ ran = {}
  /\ thrown = NoError
  /\ inTry = FALSE
  /\ nsel = 0
  /\ nextCalls = <<>>
  /\ handlerRan = FALSE
  /\ emit = NoEmit
  /\ hostErr = <<>>
  /\ finalErr = NoError
  /\ dropped = NoError
  /\ exposed = schemas
  /\ peers = [i \in PeerIds |-> NewPeer]
  /\ app = <<>>
  /\ config = <<>>
  /\ document = <<>>

\* The middleware reaches line 572 for request i and installs the
\* interception on its response.
PeerInstall(i) ==
  /\ peers[i].res.ops = "express"
  /\ peers' = [peers EXCEPT ![i].res = InstallInterception(@)]
  /\ UNCHANGED <<routeVars, app, config, document>>

\* A selection that lands on every response of the route.
PeerStatus_shared(i) ==
  /\ peers[i].res.ops # "express" /\ peers[i].emit = NoEmit
  /\ peers[i].n < MaxSelect
  /\ \E code \in SelectCodes :
       peers' = [j \in PeerIds |->
         IF j = i
           THEN [peers[j] EXCEPT
                   !.res = CallStatus(Ctx(peers[j].res, peers[j].trace), code).res,
                   !.sel = code, !.n = @ + 1]
         ELSE IF peers[j].res.ops # "express" /\ peers[j].emit = NoEmit
           THEN [peers[j] EXCEPT
                   !.res = CallStatus(Ctx(peers[j].res, peers[j].trace), code).res]
           ELSE peers[j]]
  /\ UNCHANGED <<routeVars, app, config, document>>

\* The handler of request i calls res.status(code) on its response.
PeerStatus(i) ==
  /\ peers[i].res.ops # "express" /\ peers[i].emit = NoEmit
  /\ peers[i].n < MaxSelect
  /\ \E code \in SelectCodes :
       LET c1 == CallStatus(Ctx(peers[i].res, peers[i].trace), code) IN
       peers' = [peers EXCEPT ![i].res = c1.res, ![i].trace = c1.trace,
                              ![i].sel = code, ![i].n = @ + 1]
  /\ UNCHANGED <<routeVars, app, config, document>>

\* The emission of request i, c1 being the call as it returned or threw.
PeerEmission(i, op, body, c1) ==
  peers' = [peers EXCEPT
    ![i].res = c1.res, ![i].trace = c1.trace,
    ![i].emit = [op |-> op, body |-> body, ops |-> peers[i].res.ops,
                 code |-> peers[i].res.code, status |-> peers[i].res.statusCode,
                 ctype |-> peers[i].res.ctype,
                 selections |-> peers[i].trace.selected,
                 consulted |-> Suffix(c1.trace.consulted, Len(peers[i].trace.consulted)),
                 handed |-> Suffix(c1.trace.handed, Len(peers[i].trace.handed)),
                 exc |-> c1.exc, sent |-> c1.res.sent, wire |-> c1.res.body]]

\* The handler of request i calls res.json(body) on its response.
PeerJson(i) ==
  /\ peers[i].res.ops # "express" /\ peers[i].emit = NoEmit
  /\ \E body \in PeerBodies :
       PeerEmission(i, "json", body, CallJson(Ctx(peers[i].res, peers[i].trace), body))
  /\ UNCHANGED <<routeVars, app, config, document>>

\* The handler of request i calls res.send(body) on its response.
PeerSend(i) ==
  /\ peers[i].res.ops # "express" /\ peers[i].emit = NoEmit
  /\ \E body \in PeerBodies :
       PeerEmission(i, "send", body, CallSend(Ctx(peers[i].res, peers[i].trace), body))
  /\ UNCHANGED <<routeVars, app, config, document>>

NextTwo ==
  \/ \E i \in PeerIds : PeerInstall(i)
  \/ \E i \in PeerIds : PeerStatus(i)
  \/ \E i \in PeerIds : PeerJson(i)
  \/ \E i \in PeerIds : PeerSend(i)

SpecTwo == InitTwo /\ [][NextTwo]_vars

(***************************************************************************)
(* The OpenAPI document: a host composes routers and routes, then          *)
(* generateOpenApiSpec walks app._router.stack.  A string that the walk     *)
(* takes apart (a path, the text of a regular expression) is the sequence  *)
(* of its characters.                                                       *)
(***************************************************************************)
RouterIds == {0, 1, 2}

\* Router 0 is app._router; 1 and 2 are express.Router() objects.
SubRouters == RouterIds \ {0}

MountPaths == {<<"/", "m">>, <<"/", ":", "u">>}

\* The layers a host adds in all: routes and mounted routers.
MaxLayers == 3

\* \w of a regular expression, over the characters of the paths.
IsWord(c) == c \in {"m", "p", "i", "u"}

Last(s) == s[Len(s)]

\* The length of the longest prefix of s made of word characters.
RECURSIVE WordLen(_)
WordLen(s) == IF s # <<>> /\ IsWord(s[1]) THEN 1 + WordLen(Tail(s)) ELSE 0

\* .replace(/([\/\.])/g, '\\$1') of path-to-regexp.
RECURSIVE EscapeSlashes(_)
EscapeSlashes(s) ==
  IF s = <<>> THEN <<>>
  ELSE (IF s[1] \in {"/", "."} THEN <<"\\", s[1]>> ELSE <<s[1]>>)
         \o EscapeSlashes(Tail(s))

\* The capture that stands for a key: (?:([^\/]+?))
KeyCapture == <<"(", "?", ":", "(", "[", "^", "\\", "/", "]", "+", "?", ")", ")">>

\* The replacement of every :key of path-to-regexp.
RECURSIVE ReplaceKeys(_)
ReplaceKeys(s) ==
  IF s = <<>> THEN <<>>
  ELSE IF s[1] = ":" /\ WordLen(Tail(s)) > 0
    THEN KeyCapture \o ReplaceKeys(SubSeq(s, 2 + WordLen(Tail(s)), Len(s)))
    ELSE <<s[1]>> \o ReplaceKeys(Tail(s))

\* The source of the regular expression of a router layer: pathRegexp(path,
\* keys, { sensitive: false, strict: false, end: false }).
pathRegexp(path) ==
  LET loose == <<"^">> \o path \o (IF Last(path) = "/" THEN <<"?">> ELSE <<"/", "?">>)
      keyed == ReplaceKeys(EscapeSlashes(loose))
  IN keyed \o (IF Last(keyed) = "/" THEN <<>>
               ELSE <<"(", "?", "=", "\\", "/", "|", "$", ")">>)

\* RegExp.prototype.toString of a case-insensitive expression.
regexp_toString(source) == <<"/">> \o source \o <<"/", "i">>

\* String.prototype.replace with a string pattern: the first occurrence.
Replace(s, pat, rep) ==
  LET hits == {i \in 1..(Len(s) - Len(pat) + 1) : SubSeq(s, i, i + Len(pat) - 1) = pat}
  IN IF hits = {} THEN s
     ELSE LET i == CHOOSE h \in hits : \A g \in hits : h <= g
          IN SubSeq(s, 1, i - 1) \o rep \o SubSeq(s, i + Len(pat), Len(s))

\* .replace(/\\/g, '')
StripBackslashes(s) == SelectSeq(s, LAMBDA c : c # "\\")

\* .replace(/\/$/, '')
StripTrailingSlash(s) ==
  IF s # <<>> /\ Last(s) = "/" THEN SubSeq(s, 1, Len(s) - 1) ELSE s

\* The mount path that processStack reads back from layer.regexp.
routerPath(regexp) ==
  StripBackslashes(
    Replace(Replace(regexp_toString(regexp), <<"/", "^">>, <<>>),
            <<"/", "?", "(", "?", "=", "\\", "/", "|", "$", ")", "/", "i">>, <<>>))

RECURSIVE ConcatAll(_)
ConcatAll(ss) == IF ss = <<>> THEN <<>> ELSE ss[1] \o ConcatAll(Tail(ss))

\* A function that is not a validate() unit: it has no `schemas` property.
Plain == NoSchemas

SimpleContract ==
  Contract(NoSchema, Obj2, NoSchema, NoSchema, NoSchema, Msg, FALSE, NoMap)

TypedContract ==
  Contract(NoSchema, NoSchema, NoSchema, Obj2, NoSchema, NoSchema, TRUE,
           Map(Msg, ZErrors, ZNever))

\* The routes a host declares: method, path and handlers (the `handle` of each
\* layer of route.stack).
RouteCalls ==
  {[method |-> "post", path |-> <<"/", "p", "/">>, chain |-> <<SimpleContract>>],
   [method |-> "post", path |-> <<"/", "p", "/">>, chain |-> <<TypedContract>>],
   [method |-> "post", path |-> <<"/", ":", "i">>, chain |-> <<Plain, TypedContract>>],
   [method |-> "get", path |-> <<"/", ":", "i">>, chain |-> <<Plain>>]}

NoRoute == [path |-> <<>>, stack |-> <<>>]

\* The layer of app.METHOD(path, ...handlers).
RouteLayer(path, method, chain) ==
  [name |-> "bound dispatch", path |-> path, regexp |-> <<>>, handle |-> 0,
   route |-> [path |-> path,
              stack |-> [i \in 1..Len(chain) |-> [method |-> method, handle |-> chain[i]]]]]

\* The layer of use(path, router); `path` is what the host wrote, which the
\* layer itself keeps only as regexp.
RouterLayer(path, child) ==
  [name |-> "router", path |-> path, regexp |-> pathRegexp(path), handle |-> child,
   route |-> NoRoute]

Layers(a) == Len(a[0]) + Len(a[1]) + Len(a[2])

NoContent == {}

JsonContent(schema) == {[mediaType |-> "application/json", schema |-> schema]}

\* generateRouteConfig without the test on ZodNever.
generateRouteConfig_keepContent(method, path, schemas_) ==
  [method |-> method, path |-> path,
   request |-> [body |-> IF schemas_.body # NoSchema THEN JsonContent(schemas_.body)
                         ELSE NoContent,
                params |-> schemas_.params, query |-> schemas_.query,
                headers |-> schemas_.headers],
   responses |->
     IF schemas_.response # NoSchema
       THEN [s \in {DefaultStatus} |->
               [description |-> "Success", content |-> JsonContent(schemas_.response)]]
     ELSE IF schemas_.typed
       THEN [s \in {c \in StatusCodes : schemas_.useResponse[c] # NoSchema} |->
               [description |-> ToString(s),
                content |-> JsonContent(schemas_.useResponse[s])]]
     ELSE [s \in {} |-> [description |-> "", content |-> NoContent]]]

\* generateRouteConfig that leaves out the statuses without a body.
generateRouteConfig_skipNever(method, path, schemas_) ==
  [method |-> method, path |-> path,
   request |-> [body |-> IF schemas_.body # NoSchema THEN JsonContent(schemas_.body)
                         ELSE NoContent,
                params |-> schemas_.params, query |-> schemas_.query,
                headers |-> schemas_.headers],
   responses |->
     IF schemas_.response # NoSchema
       THEN [s \in {DefaultStatus} |->
               [description |-> "Success", content |-> JsonContent(schemas_.response)]]
     ELSE IF schemas_.typed
       THEN [s \in {c \in StatusCodes : schemas_.useResponse[c] # NoSchema
                                         /\ schemas_.useResponse[c].kind # "never"} |->
               [description |-> ToString(s),
                content |-> JsonContent(schemas_.useResponse[s])]]
     ELSE [s \in {} |-> [description |-> "", content |-> NoContent]]]

\* generateRouteConfig: the keys of responses are the status codes (in the
\* source, the property names "200", "400", ...).
generateRouteConfig(method, path, schemas_) ==
  [method |-> method, path |-> path,
   request |-> [body |-> IF schemas_.body # NoSchema THEN JsonContent(schemas_.body)
                         ELSE NoContent,
                params |-> schemas_.params, query |-> schemas_.query,
                headers |-> schemas_.headers],
   responses |->
     IF schemas_.response # NoSchema
       THEN [s \in {DefaultStatus} |->
               [description |-> "Success", content |-> JsonContent(schemas_.response)]]
     ELSE IF schemas_.typed
       THEN [s \in {c \in StatusCodes : schemas_.useResponse[c] # NoSchema} |->
               [description |-> ToString(s),
                content |-> IF schemas_.useResponse[s].kind = "never" THEN NoContent
                            ELSE JsonContent(schemas_.useResponse[s])]]
     ELSE [s \in {} |-> [description |-> "", content |-> NoContent]]]

\* processStack: what it registers, in the order of the registerPath calls.
RECURSIVE processStack(_, _, _)
processStack(a, id, basePath) ==
  LET stack == a[id]
      routerLayers == SelectSeq(stack, LAMBDA layer : layer.name = "router")
      layersWithRoutes == SelectSeq(stack, LAMBDA layer : layer.route # NoRoute)
      OfRoute(layer) ==
        LET routePath == basePath \o layer.route.path
            layersWithSchemas ==
              SelectSeq(layer.route.stack, LAMBDA l : l.handle # NoSchemas)
        IN [i \in 1..Len(layersWithSchemas) |->
              generateRouteConfig(layersWithSchemas[i].method,
                                  StripTrailingSlash(routePath),
                                  layersWithSchemas[i].handle)]
      OfRouter(layer) ==
        processStack(a, layer.handle, basePath \o routerPath(layer.regexp))
  IN ConcatAll([i \in 1..Len(layersWithRoutes) |-> OfRoute(layersWithRoutes[i])])
       \o ConcatAll([i \in 1..Len(routerLayers) |-> OfRouter(routerLayers[i])])

Unset == "undefined"

\* The default value of the parameter openapiObjectConfig.
DefaultConfig ==
  [openapi |-> "3.0.0",
   info |-> [version |-> "1.0.0", title |-> "API",
             description |-> "Auto Generated API by echt"],
   servers |-> <<>>]

\* The second argument left out.
Omitted == [given |-> FALSE, value |-> DefaultConfig]

Given(cfg) == [given |-> TRUE, value |-> cfg]

CustomConfig ==
  [openapi |-> "3.0.0",
   info |-> [version |-> "2.0.0", title |-> "Custom API",
             description |-> "Custom API by echt"],
   servers |-> <<"v1">>]

\* A configuration without the optional info.description.
BareConfig ==
  [openapi |-> "3.0.0",
   info |-> [version |-> "2.0.0", title |-> "Custom API", description |-> Unset],
   servers |-> <<>>]

Configs == {Omitted, Given(CustomConfig), Given(BareConfig)}

\* OpenApiGeneratorV3.generateDocument: the configuration with the paths of
\* the registered routes; a later route of the same path and method takes
\* the place of an earlier one.
generateDocument(definitions, cfg) ==
  LET keys == {<<definitions[i].path, definitions[i].method>> : i \in DOMAIN definitions}
      LastOf(k) == CHOOSE i \in DOMAIN definitions :
                     /\ <<definitions[i].path, definitions[i].method>> = k
                     /\ \A j \in DOMAIN definitions :
                          <<definitions[j].path, definitions[j].method>> = k => j <= i
  IN [openapi |-> cfg.openapi, info |-> cfg.info, servers |-> cfg.servers,
      paths |-> [k \in keys |->
                   [request |-> definitions[LastOf(k)].request,
                    responses |-> definitions[LastOf(k)].responses]]]

generateOpenApiSpec(a, arg) ==
  LET openapiObjectConfig == IF arg.given THEN arg.value ELSE DefaultConfig
  IN generateDocument(processStack(a, 0, <<>>), openapiObjectConfig)

NoDocument == <<>>

InitDoc ==
  /\ schemas = TypedContract
  /\ form = "attach"
  /\ pc = "idle"
  /\ req = NoRequest
  /\ arrived = [c \in Range(Categories) |-> Undefined]
  /\ res = NewResponse(200, Undefined)
  /\ trace = NoTrace
  /\ validationErrors = <<>>
  /\ ran = {}
  /\ thrown = NoError
  /\ inTry = FALSE
  /\ nsel = 0
  /\ nextCalls = <<>>
  /\ handlerRan = FALSE
  /\ emit = NoEmit
  /\ hostErr = <<>>
  /\ finalErr = NoError
  /\ dropped = NoError
  /\ exposed = schemas
  /\ peers = <<>>
  /\ app = [r \in RouterIds |-> <<>>]
  /\ config = Omitted
  /\ document = NoDocument

\* router.METHOD(path, ...handlers) on app or on a router.
Route ==
  \E r \in RouterIds, call \in RouteCalls :
    /\ document = NoDocument
    /\ Layers(app) < MaxLayers
    /\ app' = [app EXCEPT ![r] = Append(@, RouteLayer(call.path, call.method, call.chain))]
    /\ UNCHANGED <<routeVars, peers, config, document>>

\* use(path, router): router 1 is mounted on the app, router 2 on router 1.
Use ==
  \E r \in RouterIds, child \in SubRouters, path \in MountPaths :
    /\ document = NoDocument
    /\ Layers(app) < MaxLayers
    /\ child = r + 1
    /\ app' = [app EXCEPT ![r] = Append(@, RouterLayer(path, child))]
    /\ UNCHANGED <<routeVars, peers, config, document>>

\* generateOpenApiSpec(app) or generateOpenApiSpec(app, config).
Generate ==
  \E arg \in Configs :
    /\ document = NoDocument
    /\ config' = arg
    /\ document' = generateOpenApiSpec(app, arg)
    /\ UNCHANGED <<routeVars, peers, app>>

NextDoc == Route \/ Use \/ Generate

SpecDoc == InitDoc /\ [][NextDoc]_vars

(***************************************************************************)
(* Properties.                                                             *)
(***************************************************************************)
Emitted == emit.op # "none"

\* The emission was a send under a JSON content type: the body is decoded
\* before it is validated.
Decodes(e) == e.op = "send" /\ IsJson(e.ctype)

\* The value the emission presents to the schema.
Presented(e) == IF Decodes(e) THEN JSONparse(e.body) ELSE e.body

\* The schema registered under code accepts the body of the emission.
Accepts(code, e) ==
  /\ Decodes(e) => JSONparses(e.body)
  /\ typedResponse(code) # NoSchema
  /\ parse(typedResponse(code), Presented(e)).err = NoError

\* C1 (status routing): a body emitted through the handle of a selected status
\* is validated against the schema registered under that status and under no
\* other, and a body that schema does not accept is never handed to the
\* original json / send.
C1_StatusRouting ==
  (Emitted /\ emit.ops = "chained") =>
    /\ \A i \in DOMAIN emit.consulted : emit.consulted[i].code = emit.code
    /\ ~Accepts(emit.code, emit) => (emit.handed = <<>> /\ ~emit.sent)
    /\ emit.handed # <<>> =>
         emit.handed[1].v \in
           {parse(typedResponse(emit.code), Presented(emit)).out,
            JSONstringify(parse(typedResponse(emit.code), Presented(emit)).out)}

\* Status 404 was selected, its schema rejected the body and nothing was
\* handed on, although the schema registered under 200 accepts that body.
C1_Witness ==
  /\ Emitted /\ emit.ops = "chained" /\ emit.code = 404
  /\ typedResponse(404) # NoSchema
  /\ emit.exc.kind = "ZodError"
  /\ Accepts(200, emit)
  /\ emit.handed = <<>>

\* What an emission call did, apart from which functions the response holds
\* afterwards.
Outcome(c) ==
  [exc |-> c.exc, consulted |-> c.trace.consulted, handed |-> c.trace.handed,
   statusCode |-> c.res.statusCode, ctype |-> c.res.ctype, sent |-> c.res.sent,
   body |-> c.res.body]

\* C2 (default status): while no status was selected on the response, emitting
\* a body does what selecting 200 and then emitting it does: the same schema
\* consulted, the same payload or the same fault, and status 200.
C2_DefaultStatus ==
  (pc = "handler" /\ res.ops = "default" /\ res.statusCode = DefaultStatus) =>
    \A body \in Bodies :
      /\ Outcome(CallJson(Ctx(res, trace), body))
           = Outcome(CallJson(CallStatus(Ctx(res, trace), 200), body))
      /\ Outcome(CallSend(Ctx(res, trace), body))
           = Outcome(CallSend(CallStatus(Ctx(res, trace), 200), body))
      /\ Outcome(CallJson(Ctx(res, trace), body)).statusCode = 200
      /\ Outcome(CallSend(Ctx(res, trace), body)).statusCode = 200

\* A body was emitted and sent with no status selected.
C2_Witness ==
  /\ Emitted /\ emit.ops = "default" /\ emit.status = DefaultStatus
  /\ emit.consulted # <<>> /\ emit.consulted[1].code = 200
  /\ emit.sent /\ res.statusCode = 200

\* The status whose schema governs the emission: the selected one, 200 when
\* none was selected.
ActiveCode(e) == IF e.ops = "chained" THEN e.code ELSE DefaultStatus

Intercepted(e) == e.ops \in {"default", "chained"}

\* The response sent is a 400 whose body is { errors: [...] }.
Is400Errors ==
  /\ res.sent /\ res.statusCode = 400
  /\ res.body.base = "obj" /\ res.body.o["errors"] = "a"

\* C3 (missing schema fault), as claimed: an emission under a status without
\* an entry raises 'No schema defined for status code <c>', that error reaches
\* next(error) and the host, nothing is handed on and no 400 is produced.
C3_MissingSchemaFault ==
  (Emitted /\ Intercepted(emit) /\ typedResponse(ActiveCode(emit)) = NoSchema) =>
    /\ emit.exc = Error(NoSchemaMessage(ActiveCode(emit)))
    /\ \E i \in DOMAIN nextCalls : nextCalls[i] = emit.exc
    /\ \E i \in DOMAIN hostErr : hostErr[i] = emit.exc
    /\ emit.handed = <<>>
    /\ ~Is400Errors

\* C4 (response validation failure), as claimed: a body the active schema
\* rejects is never sent, the failure reaches the host's error handler, and
\* the middleware does not answer with a 400 { errors }.
C4_ResponseValidationFailure ==
  (Emitted /\ Intercepted(emit) /\ typedResponse(ActiveCode(emit)) # NoSchema
     /\ (Decodes(emit) => JSONparses(emit.body))
     /\ parse(typedResponse(ActiveCode(emit)), Presented(emit)).err.kind = "ZodError") =>
    /\ emit.handed = <<>>
    /\ hostErr # <<>>
    /\ ~Is400Errors

\* C5 (simple mode), as claimed: with a single response schema and the direct
\* form, an object the handler sends with json was accepted by that schema.
C5_SimpleMode ==
  (schemas.response # NoSchema /\ form = "direct" /\ Emitted /\ emit.op = "json"
     /\ emit.body.base = "obj" /\ emit.sent) =>
    parse(schemas.response, emit.body).err = NoError

\* The input a category's schema is given: the rebuilt lower-cased view for
\* the headers, the request's own field for the others.
InputOf(cat) ==
  IF cat = "headers" THEN headerData(arrived.headers) ELSE arrived[cat]

\* The validation issues the category's schema has for the request.
Issues(cat) ==
  LET r == parse(schemas[cat], InputOf(cat)) IN
  IF schemas[cat] # NoSchema /\ r.err.kind = "ZodError" THEN r.err.errors ELSE <<>>

CategorySet == {Categories[i] : i \in DOMAIN Categories}
Present == {cat \in CategorySet : schemas[cat] # NoSchema}
Failing == {cat \in CategorySet : Issues(cat) # <<>>}

\* Some category's schema throws something that is not a ZodError.
Throws ==
  \E cat \in Present : parse(schemas[cat], InputOf(cat)).err.kind \notin {"none", "ZodError"}

\* The request gets past the misuse guard.
Reached == ~(form = "direct" /\ HasUseResponse)

MisuseSignaled ==
  \/ \E i \in DOMAIN hostErr : hostErr[i] = Error(MisuseMessage)
  \/ dropped = Error(MisuseMessage)

\* C6 (misuse guard timing), as claimed: a unit with a typed-response map in
\* the direct form has signaled the misuse before any request is processed.
C6_MisuseAtConstruction ==
  (HasUseResponse /\ form = "direct" /\ pc \in {"idle", "entry"}) => MisuseSignaled

\* C6 (misuse guard timing), amended: the misuse is signaled when a request
\* invokes the unit, not when the unit is built: nothing is signaled before a
\* request reaches it, and from the invocation on the first error the host has
\* is the misuse error, no category ran and the handler did not run.
C6_MisuseAtInvocation ==
  (HasUseResponse /\ form = "direct") =>
    /\ pc \in {"start", "idle", "entry"} => (hostErr = <<>> /\ dropped = NoError)
    /\ pc \notin {"start", "idle", "entry"} =>
         /\ hostErr # <<>> /\ hostErr[1] = Error(MisuseMessage)
         /\ ran = {} /\ ~handlerRan /\ nextCalls = <<>>

C6_Witness ==
  /\ HasUseResponse /\ form = "direct" /\ pc = "done"
  /\ hostErr = <<Error(MisuseMessage)>> /\ res.statusCode = ErrorStatus

Contains(seq, sub) ==
  \E k \in 0..(Len(seq) - Len(sub)) : SubSeq(seq, k + 1, k + Len(sub)) = sub

RECURSIVE Total(_)
Total(cats) ==
  IF cats = {} THEN 0
  ELSE LET c == CHOOSE x \in cats : TRUE IN Len(Issues(c)) + Total(cats \ {c})

\* C7 (aggregation without short-circuit): when no category throws a
\* non-validation fault, every category with a schema is validated whatever
\* the earlier ones found, and the single 400 carries the issues of every
\* failing category and nothing else.
C7_Aggregation ==
  (Reached /\ ~Throws /\ pc \in {"decide", "handler", "done", "error"}) =>
    /\ ran = Present
    /\ (Failing # {} /\ pc # "decide") =>
         /\ Is400Errors
         /\ \A cat \in Failing : Contains(res.body.e, Issues(cat))
         /\ Len(res.body.e) = Total(Failing)

C7_Witness ==
  /\ pc = "done" /\ Is400Errors /\ ~Throws
  /\ {"headers", "body", "params"} \subseteq Failing
  /\ ran = Present

\* C8 (issue order): the errors of the 400 are the categories' issues in the
\* order headers, body, query, params, locals, each category's issues in the
\* order its schema reported them.
C8_IssueOrder ==
  (Is400Errors /\ validationErrors # <<>>) =>
    /\ res.body.e = Issues("headers") \o Issues("body") \o Issues("query")
                       \o Issues("params") \o Issues("locals")
    /\ Flatten(validationErrors) = res.body.e

C8_Witness ==
  /\ Is400Errors /\ validationErrors # <<>>
  /\ Len(Issues("headers")) = 2 /\ Len(Issues("body")) = 1
  /\ Issues("locals") # <<>>
  /\ Issues("headers") # Issues("body")

\* C9 (no issue, no 400), as claimed: when no category has an issue and none
\* throws, the chain continues and the response is never the middleware's
\* 400 { errors }.
C9_NoIssueNo400 ==
  (Reached /\ ~Throws /\ Failing = {} /\ pc \in {"handler", "done", "error"}) =>
    /\ handlerRan
    /\ ~Is400Errors

\* C10 (client validation failure stops the chain): when some category has a
\* validation issue and none throws, the handler never runs, next is never
\* called, the host's error channel stays empty, and the request ends with
\* the 400 whose body is the errors collected.
C10_FailureStopsChain ==
  (Reached /\ ~Throws /\ Failing # {}) =>
    /\ ~handlerRan /\ nextCalls = <<>> /\ hostErr = <<>>
    /\ pc \notin {"handler", "error"}
    /\ ~Emitted
    /\ pc = "done" =>
         /\ Is400Errors
         /\ res.body = JSONstringify(ErrorBody(Flatten(validationErrors)))

C10_Witness ==
  /\ form = "attach" /\ HasUseResponse /\ pc = "done" /\ Failing # {}
  /\ ~handlerRan /\ Is400Errors

\* The request-state field of a category as the handler reads it.
Field(cat) == IF cat = "locals" THEN res.locals ELSE req[cat]

\* C11 (coercion propagation): once the handler has control, each of body,
\* query, params and locals that has a schema holds the schema's output for
\* the input the request arrived with, not the input itself.
C11_CoercionPropagation ==
  handlerRan =>
    \A cat \in {"body", "query", "params", "locals"} :
      schemas[cat] # NoSchema =>
        /\ parse(schemas[cat], arrived[cat]).err = NoError
        /\ Field(cat) = parse(schemas[cat], arrived[cat]).out

C11_Witness ==
  /\ handlerRan /\ pc = "handler"
  /\ schemas.body # NoSchema /\ req.body # arrived.body
  /\ schemas.locals # NoSchema /\ res.locals # arrived.locals
  /\ schemas.query # NoSchema /\ req.query # arrived.query

\* The position in Categories of the first category whose schema throws what
\* is not a ZodError (0 when none does).
FirstThrow ==
  IF Throws
    THEN CHOOSE i \in DOMAIN Categories :
           /\ Categories[i] \in Present
           /\ parse(schemas[Categories[i]], InputOf(Categories[i])).err.kind
                \notin {"none", "ZodError"}
           /\ \A j \in 1..(i - 1) :
                Categories[j] \in Present =>
                  parse(schemas[Categories[j]], InputOf(Categories[j])).err.kind
                    \in {"none", "ZodError"}
    ELSE 0

\* C12 (non-validation fault in request validation): when a category's schema
\* throws what is not a ZodError, the categories after it are never validated,
\* the handler never runs, no 400 is produced, and from the throw on next was
\* called exactly once, with that very error, which is also the one error the
\* host's error handler receives; this holds whatever issues the earlier
\* categories recorded.
C12_NonValidationFault ==
  (Reached /\ Throws) =>
    LET cat == Categories[FirstThrow]
        err == parse(schemas[cat], InputOf(cat)).err IN
    /\ ran \subseteq {Categories[j] : j \in 1..FirstThrow}
    /\ ~handlerRan /\ ~Emitted /\ ~Is400Errors
    /\ pc \notin {"decide", "handler"}
    /\ cat \in ran =>
         /\ thrown = err
         /\ nextCalls = <<err>>
         /\ hostErr = <<err>>
         /\ pc \in {"error", "done"}
    /\ cat \notin ran => (nextCalls = <<>> /\ hostErr = <<>>)

C12_Witness ==
  /\ Reached /\ Throws /\ pc = "done"
  /\ FirstThrow \in 2..4
  /\ validationErrors # <<>>
  /\ Present \ ran # {}
  /\ nextCalls = <<TransformError>>
  /\ res.statusCode = ErrorStatus

\* C13 (faults at emission time are never dropped), as claimed: a missing
\* schema fault or another non-validation fault raised by an intercepted
\* emission is passed to next(error), whenever the handler emits.
C13_FaultDelivered ==
  (Emitted /\ Intercepted(emit) /\ emit.exc.kind \in {"Error", "SyntaxError"}) =>
    /\ \E i \in DOMAIN nextCalls : nextCalls[i] = emit.exc
    /\ dropped = NoError

\* C14 (selection is not emission): in typed mode, as long as the handler has
\* emitted nothing no fault was raised anywhere and nothing was sent, whatever
\* statuses it selected, and a selection leaves the selected code as the
\* response status; an emission under a selected status without an entry
\* throws and hands nothing on, and what it throws is the missing schema
\* error whenever the body gets as far as the schema lookup.
C14_SelectionIsNotEmission ==
  /\ (HasUseResponse /\ handlerRan /\ ~Emitted) =>
       /\ thrown = NoError /\ hostErr = <<>> /\ dropped = NoError
       /\ finalErr = NoError /\ nextCalls = <<NoError>>
       /\ ~res.sent /\ pc \in {"handler", "done"}
       /\ res.ops = "chained" => res.statusCode = res.code
  /\ (Emitted /\ emit.ops = "chained" /\ typedResponse(emit.code) = NoSchema) =>
       /\ emit.exc # NoError /\ emit.handed = <<>>
       /\ (Decodes(emit) => JSONparses(emit.body)) =>
            emit.exc = Error(NoSchemaMessage(emit.code))

C14_Witness ==
  /\ HasUseResponse /\ handlerRan /\ ~Emitted /\ pc = "done"
  /\ res.ops = "chained" /\ typedResponse(res.code) = NoSchema
  /\ res.statusCode = 404 /\ nsel = 1 /\ hostErr = <<>>

\* The schema of the emission's active status accepts what the emission
\* presents to it.
Accepted(e) == Intercepted(e) /\ Accepts(ActiveCode(e), e)

\* The output of the active schema for what the emission presents.
Validated(e) == parse(typedResponse(ActiveCode(e)), Presented(e)).out

\* C15 (json forwards the validated value): when json(b) is called and the
\* active schema accepts b, the schema was given b and the first thing handed
\* to the original json is the schema's output for b.
C15_JsonForwardsValidated ==
  (Emitted /\ emit.op = "json" /\ Accepted(emit)) =>
    /\ emit.consulted # <<>>
    /\ emit.consulted[1] = [code |-> ActiveCode(emit), v |-> emit.body]
    /\ emit.handed # <<>>
    /\ emit.handed[1] = [op |-> "json", v |-> Validated(emit)]

C15_Witness ==
  /\ Emitted /\ emit.op = "json" /\ Accepted(emit) /\ emit.ops = "chained"
  /\ emit.handed[1].v # emit.body
  /\ emit.body.o["extra"] = "s" /\ emit.handed[1].v.o["extra"] = "-"

\* A send of a decodable string under a JSON content type that the active
\* schema accepts.
RoundTrip(e) ==
  e.op = "send" /\ IsJson(e.ctype) /\ JSONparses(e.body) /\ Accepted(e)

\* C16 (round trip), as claimed: for a send of encode(x) under a JSON content
\* type with x accepted by the active schema, decoding what is handed to the
\* original send yields x.
C16_RoundTripIdentity ==
  (Emitted /\ RoundTrip(emit)) =>
    /\ emit.handed # <<>>
    /\ JSONparses(emit.handed[1].v)
    /\ JSONparse(emit.handed[1].v) = JSONparse(emit.body)

\* C16 (round trip), amended: the string is decoded before the schema sees
\* it, what is handed to the original send is the serialization of the
\* schema's output, and decoding it yields that output, which is x itself
\* when the schema returns x unchanged.
C16_RoundTripValidated ==
  (Emitted /\ RoundTrip(emit)) =>
    /\ emit.consulted = <<[code |-> ActiveCode(emit), v |-> JSONparse(emit.body)]>>
    /\ emit.handed = <<[op |-> "send", v |-> JSONstringify(Validated(emit))]>>
    /\ JSONparse(emit.handed[1].v) = Validated(emit)
    /\ Validated(emit) = JSONparse(emit.body) => emit.handed[1].v = emit.body
    /\ emit.sent /\ emit.wire = emit.handed[1].v

C16_Witness ==
  /\ Emitted /\ RoundTrip(emit) /\ emit.ops = "default"
  /\ emit.sent /\ emit.wire = emit.body
  /\ JSONparse(emit.wire) = Validated(emit)

\* A send of a string that JSON.parse rejects, under a JSON content type.
Malformed(e) ==
  Intercepted(e) /\ e.op = "send" /\ IsJson(e.ctype) /\ IsString(e.body)
    /\ ~JSONparses(e.body)

\* C17 (malformed pre-serialized body), as claimed: the SyntaxError of the
\* decoding is passed to next(error) and reaches the host's error handler,
\* nothing is handed to the original send, the schema is not consulted and
\* no 400 { errors } is produced.
C17_MalformedBody ==
  (Emitted /\ Malformed(emit)) =>
    /\ emit.exc = SyntaxError
    /\ emit.consulted = <<>> /\ emit.handed = <<>>
    /\ \E i \in DOMAIN nextCalls : nextCalls[i] = SyntaxError
    /\ \E i \in DOMAIN hostErr : hostErr[i] = SyntaxError
    /\ ~Is400Errors

\* C18 (non-structured content type): a send while the Content-Type is absent
\* or not JSON gives the schema the value as it is, and when the schema
\* accepts it the first thing handed to the original send is the schema's
\* output, not a serialization of it.
C18_NonStructuredSend ==
  (Emitted /\ Intercepted(emit) /\ emit.op = "send" /\ ~IsJson(emit.ctype)
     /\ typedResponse(ActiveCode(emit)) # NoSchema) =>
    /\ emit.consulted # <<>>
    /\ emit.consulted[1] = [code |-> ActiveCode(emit), v |-> emit.body]
    /\ IF Accepted(emit)
         THEN /\ emit.handed # <<>>
              /\ emit.handed[1] = [op |-> "send", v |-> Validated(emit)]
         ELSE emit.handed = <<>>

C18_Witness ==
  /\ Emitted /\ emit.ops = "chained" /\ emit.op = "send"
  /\ emit.ctype = "text/plain" /\ emit.body = Text("Hello World")
  /\ Accepted(emit) /\ emit.handed = <<[op |-> "send", v |-> emit.body]>>
  /\ emit.sent /\ emit.wire = emit.body

\* C19 (non-validation fault in a response schema), as claimed: when the
\* active schema throws what is not a ZodError on an emitted body, the host's
\* error handler receives that error exactly once, nothing is handed to the
\* original operations and no 400 { errors } is produced.
C19_ResponseSchemaFault ==
  (Emitted /\ Intercepted(emit) /\ emit.exc = TransformError) =>
    /\ Len(SelectSeq(hostErr, LAMBDA e : e = TransformError)) = 1
    /\ emit.handed = <<>>
    /\ ~Is400Errors

\* C20 (ordering of the composed unit): in both forms the handler has control
\* only after every category with a schema was validated and none failed or
\* threw, and with a typed map json and send of the response are the
\* interceptors from the moment the attached handler starts.
C20_Ordering ==
  handlerRan =>
    /\ Reached
    /\ ran = Present /\ Failing = {} /\ ~Throws
    /\ validationErrors = <<>>
    /\ nextCalls # <<>> /\ nextCalls[1] = NoError
    /\ HasUseResponse => (form = "attach" /\ res.ops \in {"default", "chained"})
    /\ ~HasUseResponse => res.ops = "express"

C20_Witness ==
  /\ handlerRan /\ pc = "handler" /\ form = "attach" /\ HasUseResponse
  /\ ran = {"body"} /\ res.ops = "default" /\ nsel = 0 /\ ~Emitted

\* The incoming keys that become the key k once lowercased.
Spellings(h, k) == {u \in Keys : Lower(u) = k /\ h.o[u] # "-"}

\* The normalized view of a header collection in which no two keys differ
\* only by case: lowercase keys only, a string for a string or for a list
\* with a first element, undefined for everything else.
NormalizedView(h) ==
  Obj([k \in Keys |->
    IF Lower(k) # k \/ Spellings(h, k) = {} THEN "-"
    ELSE LET kind == h.o[CHOOSE u \in Spellings(h, k) : TRUE] IN
         IF kind \in {"s", "l"} THEN "s" ELSE "u"])

\* C21 (header normalization view): the headers schema is given the incoming
\* headers with every key lowercased, strings kept, lists replaced by their
\* first element and undefined values kept undefined, so right after the
\* headers were validated the errors collected are those of the schema on
\* that view.
C21_HeaderNormalization ==
  (pc \notin {"start", "idle"}
     /\ \A k \in Keys : Cardinality(Spellings(arrived.headers, k)) <= 1) =>
    /\ headerData(arrived.headers) = NormalizedView(arrived.headers)
    /\ (pc = "body" /\ schemas.headers # NoSchema) =>
         LET r == parse(schemas.headers, NormalizedView(arrived.headers)) IN
         /\ "headers" \in ran
         /\ validationErrors = IF r.err.kind = "ZodError" THEN <<r.err>> ELSE <<>>

C21_Witness ==
  /\ pc = "body" /\ schemas.headers = Obj2 /\ "headers" \in ran
  /\ arrived.headers.o["Message"] = "s" /\ arrived.headers.o["message"] = "-"
  /\ validationErrors = <<>>

\* The headers schema accepted the request's headers.
HeadersAccepted ==
  /\ "headers" \in ran
  /\ parse(schemas.headers, headerData(arrived.headers)).err = NoError

\* C22 (header write-back is a merge): once the headers schema has accepted,
\* req.headers holds the validated value under every key of the validated
\* result and the original value under every other key.
C22_HeaderMerge ==
  HeadersAccepted =>
    LET result == parse(schemas.headers, headerData(arrived.headers)).out IN
    \A k \in Keys :
      req.headers.o[k] = IF result.o[k] # "-" THEN result.o[k]
                         ELSE arrived.headers.o[k]

C22_Witness ==
  /\ HeadersAccepted /\ handlerRan /\ pc = "handler"
  /\ arrived.headers.o["Message"] = "s" /\ req.headers.o["Message"] = "s"
  /\ req.headers.o["extra"] = "s" /\ req.headers.o["message"] = "s"

\* C25 (schema back-reference): from the moment the unit is mounted, in the
\* direct form and in the attach form, its `schemas` property is the contract
\* given to validate, and no step of the processing of a request changes the
\* contract or the property.
C25_SchemaBackReference ==
  /\ [](pc # "start" => exposed = schemas)
  /\ [][schemas' = schemas /\ (pc # "start" => exposed' = exposed)]_vars

C25_Witness ==
  /\ pc = "done" /\ exposed = schemas
  /\ \/ form = "attach" /\ HasUseResponse /\ handlerRan /\ emit.sent
     \/ form = "direct" /\ ~HasUseResponse /\ Is400Errors

\* The response request i would have had it been alone on the route: the
\* interception installed, then its own last selection.
Alone(i) ==
  LET r0 == Ctx(InstallInterception(NewResponse(200, Undefined)), NoTrace) IN
  IF peers[i].sel = 0 THEN r0 ELSE CallStatus(r0, peers[i].sel)

\* What the emission of request i would have done on that response.
AloneCall(i) ==
  IF peers[i].emit.op = "json" THEN CallJson(Alone(i), peers[i].emit.body)
  ELSE CallSend(Alone(i), peers[i].emit.body)

\* C23 (no cross-request state): with two requests of one route interleaved,
\* the status of each response is the one selected last on that response, and
\* each emission consults the schemas, hands on the values and throws the
\* error it would have with its request alone on the route.
C23_NoCrossRequestState ==
  \A i \in DOMAIN peers :
    /\ peers[i].sel # 0 =>
         (peers[i].res.code = peers[i].sel \/ peers[i].emit # NoEmit)
    /\ peers[i].emit # NoEmit =>
         /\ peers[i].emit.consulted = AloneCall(i).trace.consulted
         /\ peers[i].emit.handed = AloneCall(i).trace.handed
         /\ peers[i].emit.exc = AloneCall(i).exc
         /\ \A k \in DOMAIN peers[i].emit.consulted :
              peers[i].emit.consulted[k].code =
                IF peers[i].sel = 0 THEN DefaultStatus ELSE peers[i].sel

C23_Witness ==
  /\ peers # <<>>
  /\ peers[1].sel = 404 /\ peers[2].sel = 0
  /\ peers[1].emit.op = "json" /\ peers[2].emit.op = "json"
  /\ peers[1].emit.consulted # <<>> /\ peers[1].emit.consulted[1].code = 404
  /\ peers[2].emit.consulted # <<>> /\ peers[2].emit.consulted[1].code = 200
  /\ peers[1].emit.sent /\ peers[2].emit.sent

\* The emission gets as far as the schema lookup (a send under a JSON content
\* type decodes its body first).
ReachesLookup(e) == Decodes(e) => JSONparses(e.body)

Ambiguous(e) ==
  Intercepted(e) /\ e.op = "send" /\ IsJson(e.ctype) /\ ~IsString(e.body)

\* C30 (ambiguous send), as claimed: a send of a non-string value under a JSON
\* content type skips the decoding, so no SyntaxError is raised, and when the
\* active status has a schema it is the value itself that the schema is given.
C30_AmbiguousSend ==
  (Emitted /\ Ambiguous(emit)) =>
    /\ emit.exc # SyntaxError
    /\ typedResponse(ActiveCode(emit)) # NoSchema =>
         (emit.consulted # <<>> /\ emit.consulted[1].v = emit.body)

\* The document has been generated.
Generated == document # NoDocument

\* What the walk registered to produce the document.
Registered == processStack(app, 0, <<>>)

\* The handlers with a `schemas` property that the host placed under router
\* id, each with the mount paths the host wrote on the way to it, a router's
\* routes before its sub-routers.
RECURSIVE Discover(_, _, _)
Discover(a, id, mounts) ==
  LET stack == a[id]
      OfRoute(layer) ==
        LET hs == SelectSeq(layer.route.stack, LAMBDA l : l.handle # Plain)
        IN [i \in 1..Len(hs) |->
              [method |-> hs[i].method, mounts |-> mounts,
               path |-> layer.route.path, schemas |-> hs[i].handle]]
      routes == SelectSeq(stack, LAMBDA layer : layer.name # "router")
      routers == SelectSeq(stack, LAMBDA layer : layer.name = "router")
  IN ConcatAll([i \in 1..Len(routes) |-> OfRoute(routes[i])])
       \o ConcatAll([i \in 1..Len(routers) |->
                       Discover(a, routers[i].handle, Append(mounts, routers[i].path))])

Found == Discover(app, 0, <<>>)

\* The status codes a contract must be documented under.
Documented(s) ==
  IF s.typed THEN {c \in StatusCodes : s.useResponse[c] # NoSchema}
  ELSE IF s.response # NoSchema THEN {200}
  ELSE {}

\* An entry of the document comes from a registered route of its path and
\* method.
EntriesRegistered ==
  \A k \in DOMAIN document.paths :
    \E i \in DOMAIN Registered :
      /\ k = <<Registered[i].path, Registered[i].method>>
      /\ document.paths[k].responses = Registered[i].responses

\* C26 (OpenAPI responses per status): the route entry of a typed contract
\* has one response descriptor for each status code of the map and no other,
\* keyed by the status; the entry of a simple contract has one descriptor,
\* keyed 200; and every entry of the document is such an entry.
C26_ResponsesPerStatus ==
  Generated =>
    /\ Len(Registered) = Len(Found)
    /\ \A i \in DOMAIN Found :
         /\ DOMAIN Registered[i].responses = Documented(Found[i].schemas)
         /\ Found[i].schemas.response # NoSchema =>
              DOMAIN Registered[i].responses = {200}
         /\ \A c \in DOMAIN Registered[i].responses :
              Found[i].schemas.typed =>
                Registered[i].responses[c].description = ToString(c)
    /\ EntriesRegistered

C26_Witness ==
  /\ Generated
  /\ \E k \in DOMAIN document.paths : DOMAIN document.paths[k].responses = {200, 400, 404}
  /\ \E k \in DOMAIN document.paths :
       /\ DOMAIN document.paths[k].responses = {200}
       /\ document.paths[k].responses[200].description = "Success"

\* C27 (OpenAPI no-body status): in the entry of a typed contract the
\* descriptor of a status whose schema is z.never() has no content, and the
\* descriptor of every other status has that status's schema as its
\* application/json content; and every entry of the document is such an
\* entry.
C27_NoBodyStatus ==
  Generated =>
    /\ \A i \in DOMAIN Found :
         Found[i].schemas.typed =>
           \A c \in Documented(Found[i].schemas) :
             LET schema == Found[i].schemas.useResponse[c]
                 content == Registered[i].responses[c].content
             IN /\ schema = ZNever => content = NoContent
                /\ schema # ZNever =>
                     content = {[mediaType |-> "application/json", schema |-> schema]}
    /\ EntriesRegistered

C27_Witness ==
  /\ Generated
  /\ \E k \in DOMAIN document.paths :
       /\ DOMAIN document.paths[k].responses = {200, 400, 404}
       /\ document.paths[k].responses[404].content = NoContent
       /\ document.paths[k].responses[200].content = JsonContent(Msg)

\* C28 (OpenAPI route discovery), as claimed: the walk registers one entry
\* for each handler that has a `schemas` property and no other, and the path
\* of the entry is the mount paths of the enclosing routers followed by the
\* route's own path, without a trailing slash.
C28_RouteDiscovery ==
  Generated =>
    /\ Len(Registered) = Len(Found)
    /\ \A i \in DOMAIN Found :
         /\ Registered[i].method = Found[i].method
         /\ Registered[i].path =
              StripTrailingSlash(ConcatAll(Found[i].mounts) \o Found[i].path)

\* C29 (OpenAPI config defaults), as claimed: each of openapi, info.version,
\* info.title and info.description of the document is the caller's value when
\* the caller supplied one and its default otherwise; servers has no default.
C29_ConfigDefaults ==
  Generated =>
    LET Supplied(v) == config.given /\ v # Unset
        given == config.value
    IN /\ document.openapi = IF Supplied(given.openapi) THEN given.openapi ELSE "3.0.0"
       /\ document.info.version =
            IF Supplied(given.info.version) THEN given.info.version ELSE "1.0.0"
       /\ document.info.title =
            IF Supplied(given.info.title) THEN given.info.title ELSE "API"
       /\ document.info.description =
            IF Supplied(given.info.description) THEN given.info.description
            ELSE "Auto Generated API by echt"
       /\ document.servers = IF config.given THEN given.servers ELSE <<>>

\* The value v is what a successful validation recorded in the trace t gave,
\* as it is or serialized.
ValidationOutput(t, v) ==
  \E j \in DOMAIN t.consulted :
    LET c == t.consulted[j]
        r == parse(typedResponse(c.code), c.v)
    IN /\ typedResponse(c.code) # NoSchema
       /\ r.err = NoError
       /\ v \in {r.out, JSONstringify(r.out)}

\* C31 (no emission bypasses validation): in typed mode every value handed to
\* the original json or send is the output of a successful validation by a
\* schema of the map, and so is a payload that json or send wrote on a
\* response that has the interception; the emissions of the middleware's
\* catch block and of the host's error handler included.
C31_NoBypass ==
  HasUseResponse =>
    /\ \A i \in DOMAIN trace.handed : ValidationOutput(trace, trace.handed[i].v)
    /\ (res.sent /\ res.ops # "express" /\ finalErr = NoError) =>
         ValidationOutput(trace, res.body)

\* The catch block of the middleware answered a rejected body with a 400
\* that went through the interception.
C31_Witness ==
  /\ HasUseResponse /\ pc = "done" /\ thrown.kind = "ZodError"
  /\ res.sent /\ res.statusCode = 400 /\ res.ops = "chained"
  /\ Len(trace.handed) >= 2
  /\ ValidationOutput(trace, res.body)

\* The request state as the request arrived with it.
Untouched ==
  /\ req.headers = arrived["headers"] /\ req.body = arrived["body"]
  /\ req.query = arrived["query"] /\ req.params = arrived["params"]
  /\ res.locals = arrived["locals"]

\* C32 (misuse guard precedes everything): once a typed contract mounted in
\* the direct form was invoked, the host holds the misuse error, no
\* request-side schema ran and no schema of the map was consulted by the
\* middleware, the request state is as it arrived, no 400 { errors } is sent,
\* the middleware did not call next and the downstream handler did not run.
C32_GuardFirst ==
  (HasUseResponse /\ form = "direct" /\ pc \notin {"start", "idle", "entry"}) =>
    /\ hostErr = <<Error(MisuseMessage)>>
    /\ ran = {} /\ validationErrors = <<>>
    /\ Untouched
    /\ ~Is400Errors
    /\ nextCalls = <<>>
    /\ ~handlerRan /\ emit = NoEmit

\* The misuse was signaled for a request whose body the contract rejects.
C32_Witness ==
  /\ HasUseResponse /\ form = "direct" /\ pc = "done"
  /\ Verdict(schemas.body, arrived["body"]) = "issue"
  /\ hostErr = <<Error(MisuseMessage)>>
  /\ res.sent /\ res.statusCode = ErrorStatus /\ Untouched

\* C33 (last selection wins): while the handler holds a response with the
\* interception on which statuses c1, ..., cn were selected, json and send
\* are bound to cn and the response status is cn; an emission then consults
\* only the schema registered under cn.  (Every handle a selection returned
\* is the response object itself, line 585.)
C33_LastSelectionWins ==
  /\ (pc = "handler" /\ res.ops # "express" /\ trace.selected # <<>>) =>
       /\ res.ops = "chained"
       /\ res.code = Last(trace.selected)
       /\ res.statusCode = Last(trace.selected)
  /\ (Emitted /\ Intercepted(emit) /\ emit.selections # <<>>) =>
       LET cn == Last(emit.selections) IN
       /\ emit.ops = "chained" /\ emit.code = cn /\ emit.status = cn
       /\ \A i \in DOMAIN emit.consulted : emit.consulted[i].code = cn
       /\ emit.sent => (emit.consulted # <<>> /\ typedResponse(cn) # NoSchema)

\* Two different statuses were selected and the body was sent under the
\* second.
C33_Witness ==
  /\ Emitted /\ Len(emit.selections) = 2
  /\ emit.selections[1] # emit.selections[2]
  /\ emit.sent /\ emit.exc = NoError
  /\ emit.consulted[1].code = emit.selections[2]
  /\ res.statusCode = emit.selections[2]

\* C34 (validated status equals wire status), as claimed: when an emission
\* through the interception hands its body to the transport, every schema
\* consulted for it is the one registered under the status the response
\* carries, however that status was set.
C34_ValidatedStatusIsWireStatus ==
  (Emitted /\ Intercepted(emit) /\ emit.sent) =>
    /\ res.statusCode = emit.status
    /\ \A i \in DOMAIN emit.consulted : emit.consulted[i].code = res.statusCode

\* C35 (the request-validation 400 is not schema-checked): in typed mode,
\* when request-side schemas reported issues and none threw, the response is
\* the 400 { errors } with all the issues, written by the host's own status
\* and json: the interception is not on the response, no schema of the map
\* was consulted and the host holds no error, whether the map has an entry
\* for 400 and whatever that entry accepts.
C35_Request400Unchecked ==
  (HasUseResponse /\ form = "attach" /\ validationErrors # <<>>
     /\ thrown = NoError /\ pc \notin {"headers", "body", "query", "params",
                                          "locals", "decide"}) =>
    /\ pc = "done"
    /\ Is400Errors /\ res.body = JSONstringify(ErrorBody(Flatten(validationErrors)))
    /\ res.ops = "express"
    /\ trace.consulted = <<>> /\ trace.handed = <<>>
    /\ hostErr = <<>> /\ nextCalls = <<>> /\ ~handlerRan

\* The 400 was sent though the entry of the map for 400 rejects { errors }.
C35_Witness ==
  /\ HasUseResponse /\ form = "attach" /\ pc = "done"
  /\ validationErrors # <<>> /\ res.sent /\ res.statusCode = 400
  /\ typedResponse(400) = Err
  /\ parse(typedResponse(400), ErrorBody(Flatten(validationErrors))).err # NoError

\* C36 (the interception outlives the fault): the overrides are never taken
\* off a response, and when the host's error handler answers on a response
\* that has them, its res.status(500).json(...) is bound to 500 and checked
\* against the map: it raises the missing schema error of 500 when the map
\* has no entry for 500, and otherwise the schema of 500 is given the
\* handler's body.
C36_InterceptionOutlivesFault ==
  /\ [][res.ops # "express" => res'.ops # "express"]_vars
  /\ []((pc = "done" /\ hostErr # <<>> /\ res.ops # "express") =>
          /\ res.ops = "chained" /\ res.code = ErrorStatus
          /\ typedResponse(ErrorStatus) = NoSchema =>
               finalErr = Error(NoSchemaMessage(ErrorStatus))
          /\ typedResponse(ErrorStatus) # NoSchema =>
               /\ \E i \in DOMAIN trace.consulted :
                    /\ trace.consulted[i].code = ErrorStatus
                    /\ trace.consulted[i].v = Obj(Props("-", "s", "-"))
               /\ finalErr # Error(NoSchemaMessage(ErrorStatus)))

\* The middleware passed a fault of the handler to next and the error
\* handler's answer raised the missing schema error of 500.
C36_Witness ==
  /\ pc = "done" /\ form = "attach" /\ HasUseResponse
  /\ Len(nextCalls) = 2 /\ nextCalls[2] # NoError /\ hostErr = <<nextCalls[2]>>
  /\ typedResponse(ErrorStatus) = NoSchema
  /\ finalErr = Error(NoSchemaMessage(ErrorStatus))

\* The request reached the middleware itself: the attach form, or the direct
\* form of a contract without a typed map.
RequestPhaseRuns == form = "attach" \/ ~HasUseResponse

\* The middleware is past the request phase.
PastRequestPhase ==
  pc \notin {"start", "idle", "entry", "headers", "body", "query", "params",
             "locals", "decide"}

\* C37 (exactly one outcome), as claimed: for a finished request exactly one
\* of these occurred: a 400 { errors } was sent, next was called without an
\* error, next was called with an error.
C37_ExactlyOneOutcome ==
  (RequestPhaseRuns /\ pc = "done") =>
    LET sent400 == Is400Errors
        continued == \E i \in DOMAIN nextCalls : nextCalls[i] = NoError
        faulted == \E i \in DOMAIN nextCalls : nextCalls[i] # NoError
    IN Cardinality({o \in {"400", "next", "fault"} :
                      \/ o = "400" /\ sent400
                      \/ o = "next" /\ continued
                      \/ o = "fault" /\ faulted}) = 1

\* How the request phase ended, read from the first thing the middleware did.
Answered400 == nextCalls = <<>> /\ Is400Errors
ContinuedFirst == nextCalls # <<>> /\ nextCalls[1] = NoError
FaultedFirst ==
  nextCalls # <<>> /\ nextCalls[1] # NoError /\ nextCalls[1].kind # "ZodError"

\* C37 (exactly one outcome), amended: while the request phase runs nothing
\* was sent and next was not called; it ends in exactly one of the three
\* outcomes.  After a 400 or a fault of a request-side schema the handler
\* never runs and the middleware does nothing more.  After the chain was
\* continued, a fault of the handler can still make the middleware call
\* next(error) once or send a 400 { errors }.
C37_OneOutcomeOfRequestPhase ==
  RequestPhaseRuns =>
    /\ ~PastRequestPhase => (nextCalls = <<>> /\ ~res.sent)
    /\ PastRequestPhase =>
         /\ Cardinality({o \in {"400", "next", "fault"} :
                           \/ o = "400" /\ Answered400
                           \/ o = "next" /\ ContinuedFirst
                           \/ o = "fault" /\ FaultedFirst}) = 1
         /\ Answered400 => (validationErrors # <<>> /\ ~handlerRan /\ hostErr = <<>>)
         /\ FaultedFirst =>
              (~handlerRan /\ Len(nextCalls) = 1 /\ ~Is400Errors
                 /\ hostErr = <<nextCalls[1]>>)
         /\ ContinuedFirst =>
              /\ validationErrors = <<>> /\ handlerRan /\ Len(nextCalls) <= 2
              /\ Len(nextCalls) = 2 =>
                   (form = "attach" /\ nextCalls[2] = thrown /\ thrown # NoError)

\* A request-side schema threw after another had reported issues: next(error)
\* is the only outcome.
C37_Witness ==
  /\ RequestPhaseRuns /\ pc = "done" /\ FaultedFirst
  /\ validationErrors # <<>> /\ ~handlerRan /\ res.statusCode = ErrorStatus

\* The verdict of the category's schema on what the request arrived with.
Arrival(cat) == parse(schemas[cat], InputOf(cat))

\* C38 (partial write-back on failure), as claimed: the field of a category
\* whose schema ran and rejected is as the request arrived with it, and the
\* field of a category whose schema ran and accepted is the validated value.
C38_PartialWriteBack ==
  \A cat \in CategorySet :
    /\ (cat \in ran /\ Arrival(cat).err # NoError) => Field(cat) = arrived[cat]
    /\ (cat \in ran /\ Arrival(cat).err = NoError) => Field(cat) = Arrival(cat).out

\* C38 (partial write-back on failure), amended: the field of a category
\* whose schema did not run or rejected is as the request arrived with it;
\* the field of body, query, params or locals whose schema accepted is the
\* validated value; req.headers, when the headers schema accepted, is the
\* arrived headers with the validated entries assigned over them.  All of it
\* also after a 400 and after next(error).
C38_PartialWriteBackMerged ==
  \A cat \in CategorySet :
    /\ (cat \notin ran \/ Arrival(cat).err # NoError) => Field(cat) = arrived[cat]
    /\ (cat \in ran /\ Arrival(cat).err = NoError) =>
         Field(cat) = IF cat = "headers"
                        THEN ObjectAssign(arrived[cat], Arrival(cat).out)
                        ELSE Arrival(cat).out

\* A 400 was sent for a rejected query after the body was overwritten with
\* its validated value.
C38_Witness ==
  /\ pc = "done" /\ Is400Errors
  /\ {"body", "query"} \subseteq ran
  /\ Arrival("body").err = NoError /\ req.body = Arrival("body").out
  /\ req.body # arrived["body"]
  /\ Arrival("query").err # NoError /\ req.query = arrived["query"]

\* C39 (validation is applied once per emission), as claimed: an emission of
\* the handler through the interception whose body the active schema
\* accepts consults the schema once, hands one value to the original
\* operations, raises nothing, and the payload is the serialization of the
\* schema's output for the body.
C39_ValidatedOnce ==
  (Emitted /\ emit.op = "json" /\ Accepted(emit)) =>
    /\ Len(emit.consulted) = 1 /\ Len(emit.handed) = 1
    /\ emit.exc = NoError
    /\ emit.sent /\ emit.wire = JSONstringify(Validated(emit))
====
